---------------------------- MODULE Spec2Model ----------------------------
(***************************************************************************)
(* Cost-aware task orchestration of gemini-cli-swarm: the CostOptimizer    *)
(* (src/src/cost_optimizer.rs), the PerformanceMonitor                     *)
(* (src/src/performance.rs) and the SwarmOrchestrator                      *)
(* (src/src/swarm/mod.rs).                                                 *)
(*                                                                         *)
(* Numbers.  The source computes in f64.  The model computes the same      *)
(* expressions exactly, in fixed point:                                    *)
(*   - a score in [0,1] is an integer number of 1/One (One = 3*7*100, so   *)
(*     that k/7, w/100 and a mean of three are exact);                     *)
(*   - money is an integer number of 5e-8 USD (every price of the table    *)
(*     is a multiple of 0.05 USD per million tokens), so that              *)
(*     tokens/1e6 * price is tokens * PerMillion(price in cents);          *)
(*   - time is an integer number of seconds;                               *)
(*   - a quotient is a fraction [num, den]; 1/0 is Inf and 0/0 is NaN.     *)
(***************************************************************************)
EXTENDS Integers, Sequences, FiniteSets, TLC

VARIABLES
    \* CostOptimizer (cost_optimizer.rs:55-59)
    model_capabilities, usage_history, current_constraints,
    \* PerformanceMonitor (performance.rs:60-67)
    task_history, model_performance, real_time_buffer, baseline_metrics,
    session_start, alert_thresholds,
    \* SwarmOrchestrator (swarm/mod.rs:163-173)
    adapters, default_adapter,
    \* the execute_task call in flight: pc is "idle", or "awaiting" while
    \* adapter.execute has been invoked for cur_task and has not returned
    pc, cur_task,
    \* GeminiCLIFlow (adapters/gemini_cli.rs:144-154) and the execute call
    \* in flight on it
    flow,
    \* environment and history
    now,          \* the wall clock, in seconds
    trackers,     \* the TaskTracker handles start_task has handed out
    completions,  \* history: the complete_task calls made on open trackers
    appended,     \* history: the number of record_usage calls made
    executed,     \* history: the number of execute_task calls that returned
    ret           \* the last call made and the value it returned

optVars  == <<model_capabilities, usage_history, current_constraints>>
monVars  == <<task_history, model_performance, real_time_buffer,
              baseline_metrics, session_start, alert_thresholds>>
orchVars == <<adapters, default_adapter, pc, cur_task, flow>>
histVars == <<trackers, completions, appended, executed>>
vars     == <<optVars, monVars, orchVars, histVars, now, ret>>

-----------------------------------------------------------------------------
(* Fixed-point units *)

One == 3 * 7 * 100

\* n tenths (0.3 is Tenths(3)) as a score
Tenths(n) == (n * One) \div 10

\* USD cents as money
Cents(n) == n * 200000

\* a price of n cents per million tokens, as money per token
PerMillion(n) == n \div 5

Min(a, b) == IF a < b THEN a ELSE b
Max(a, b) == IF a > b THEN a ELSE b

\* Option<T>: None is the empty sequence, Some(v) the one-element sequence
None == <<>>
Some(v) == <<v>>
IsSome(o) == Len(o) = 1

RECURSIVE SeqSum(_)
SeqSum(s) == IF s = <<>> THEN 0 ELSE Head(s) + SeqSum(Tail(s))

-----------------------------------------------------------------------------
(* Text: str::to_lowercase, str::contains, str::split_whitespace *)

UpperToLower ==
    [c \in {"A", "B", "C", "D", "E", "F", "G", "H", "I", "J", "K", "L", "M",
            "N", "O", "P", "Q", "R", "S", "T", "U", "V", "W", "X", "Y", "Z"} |->
        CASE c = "A" -> "a" [] c = "B" -> "b" [] c = "C" -> "c" [] c = "D" -> "d"
          [] c = "E" -> "e" [] c = "F" -> "f" [] c = "G" -> "g" [] c = "H" -> "h"
          [] c = "I" -> "i" [] c = "J" -> "j" [] c = "K" -> "k" [] c = "L" -> "l"
          [] c = "M" -> "m" [] c = "N" -> "n" [] c = "O" -> "o" [] c = "P" -> "p"
          [] c = "Q" -> "q" [] c = "R" -> "r" [] c = "S" -> "s" [] c = "T" -> "t"
          [] c = "U" -> "u" [] c = "V" -> "v" [] c = "W" -> "w" [] c = "X" -> "x"
          [] c = "Y" -> "y" [] c = "Z" -> "z"]

CharAt(s, i) == SubSeq(s, i, i)

\* str::to_lowercase: the lower-cased characters of s, as a sequence
to_lowercase(s) ==
    [i \in 1..Len(s) |->
        LET c == CharAt(s, i)
        IN  IF c \in DOMAIN UpperToLower THEN UpperToLower[c] ELSE c]

\* str::contains, of a sequence of characters and a pattern string
contains(text, pat) ==
    \E i \in 1..(Len(text) - Len(pat) + 1) :
        \A j \in 1..Len(pat) : text[i + j - 1] = CharAt(pat, j)

\* split_whitespace().count(): the number of maximal runs of non-blanks
word_count(s) ==
    Cardinality({i \in 1..Len(s) :
        /\ CharAt(s, i) # " "
        /\ (i = 1 \/ CharAt(s, i - 1) = " ")})

CountPresent(text, words) ==
    Cardinality({i \in 1..Len(words) : contains(text, words[i])})

-----------------------------------------------------------------------------
(* cost_optimizer.rs *)

ModelChoice == {"Gemini2Pro", "Gemini25Pro", "Gemini25Flash",
                "Claude35Sonnet", "Claude37Sonnet", "AutoSelect"}

PriorityLevel == {"Low", "Balanced", "High", "Critical"}

\* impl Default for CostOptimizer: the capability table.  Prices are the
\* source's USD per million tokens, given in cents; performance_score in 1/100.
DefaultCapabilities ==
    [m \in {"Gemini2Pro", "Gemini25Pro", "Claude35Sonnet", "Claude37Sonnet"} |->
        CASE m = "Gemini2Pro" ->
                [cost_per_million_input |-> PerMillion(10), cost_per_million_output |-> PerMillion(40),
                 performance_score |-> 75, thinking_support |-> FALSE,
                 max_context_tokens |-> 2000000,
                 specializations |-> {"SimpleQuery", "CodeGeneration"}]
          [] m = "Gemini25Pro" ->
                [cost_per_million_input |-> PerMillion(125), cost_per_million_output |-> PerMillion(1000),
                 performance_score |-> 90, thinking_support |-> TRUE,
                 max_context_tokens |-> 1000000,
                 specializations |-> {"ComplexReasoning", "Mathematical", "CodeGeneration"}]
          [] m = "Claude35Sonnet" ->
                [cost_per_million_input |-> PerMillion(300), cost_per_million_output |-> PerMillion(1500),
                 performance_score |-> 88, thinking_support |-> FALSE,
                 max_context_tokens |-> 200000,
                 specializations |-> {"CodeGeneration", "DataAnalysis"}]
          [] m = "Claude37Sonnet" ->
                [cost_per_million_input |-> PerMillion(300), cost_per_million_output |-> PerMillion(1500),
                 performance_score |-> 95, thinking_support |-> TRUE,
                 max_context_tokens |-> 200000,
                 specializations |-> {"ComplexReasoning", "CodeGeneration", "Mathematical"}]]

\* CostOptimizer::default: constraints of a default optimizer
DefaultConstraints ==
    [max_cost_per_task |-> None, monthly_budget |-> None,
     current_month_spent |-> 0, priority_level |-> "Balanced"]

\* CostOptimizer::detect_task_type
detect_task_type(description) ==
    LET d == to_lowercase(description)
    IN  IF contains(d, "code") \/ contains(d, "function")
           \/ contains(d, "class") \/ contains(d, "programming")
        THEN "CodeGeneration"
        ELSE IF contains(d, "analyze") \/ contains(d, "data")
                \/ contains(d, "statistics")
        THEN "DataAnalysis"
        ELSE IF contains(d, "math") \/ contains(d, "calculate")
                \/ contains(d, "equation")
        THEN "Mathematical"
        ELSE IF contains(d, "think") \/ contains(d, "reason")
                \/ contains(d, "complex")
        THEN "ComplexReasoning"
        ELSE IF contains(d, "image") \/ contains(d, "video")
                \/ contains(d, "audio")
        THEN "Multimodal"
        ELSE IF contains(d, "write") \/ contains(d, "story")
                \/ contains(d, "creative")
        THEN "CreativeWriting"
        ELSE "SimpleQuery"

\* complexity_score of select_optimal_model, times 3: the mean's numerator.
\* A comparison "score < t" is made as "3*score < 3*t".
complexity_score3(tc) ==
    tc.reasoning_required + tc.code_complexity + tc.context_length

\* mutant of CriticalChoice: the mid-tier reasoning backend for a thinking task
CriticalChoice_MidTier(task_complexity) ==
    IF task_complexity.thinking_needed
    THEN "Gemini25Pro" ELSE "Claude35Sonnet"

\* select_optimal_model, the Critical arm
CriticalChoice(task_complexity) ==
    IF task_complexity.thinking_needed
    THEN "Claude37Sonnet" ELSE "Claude35Sonnet"

\* mutant of ThinkingChoice: the premium backend without extended reasoning
ThinkingChoice_NoReasoning(score3) ==
    IF score3 > 3 * Tenths(7) THEN "Claude35Sonnet" ELSE "Gemini25Pro"

\* select_optimal_model, the thinking arm
ThinkingChoice(score3) ==
    IF score3 > 3 * Tenths(7) THEN "Claude37Sonnet" ELSE "Gemini25Pro"

\* select_optimal_model, the Balanced arm
BalancedChoice(score3) ==
    IF score3 > 3 * Tenths(7) THEN "Gemini25Pro"
    ELSE IF score3 > 3 * Tenths(4) THEN "Gemini25Flash"
    ELSE "Gemini2Pro"

\* mutant of select_optimal_model: the thinking arm before the Low arm
select_optimal_model_ThinkingFirst(constraints, task_complexity, task_description) ==
    LET task_type == detect_task_type(task_description)
        score3    == complexity_score3(task_complexity)
        priority  == constraints.priority_level
    IN  IF priority = "Critical"
        THEN CriticalChoice(task_complexity)
        ELSE IF task_complexity.thinking_needed
        THEN ThinkingChoice(score3)
        ELSE IF priority = "Low" /\ score3 < 3 * Tenths(3)
        THEN "Gemini2Pro"
        ELSE IF task_type = "CodeGeneration" /\ score3 > 3 * Tenths(6)
        THEN "Claude35Sonnet"
        ELSE IF priority = "Balanced"
        THEN BalancedChoice(score3)
        ELSE "Gemini25Pro"

\* CostOptimizer::select_optimal_model, with the optimizer's constraints:
\* the match arms in their order
select_optimal_model(constraints, task_complexity, task_description) ==
    LET task_type == detect_task_type(task_description)
        score3    == complexity_score3(task_complexity)
        priority  == constraints.priority_level
    IN  IF priority = "Critical"
        THEN CriticalChoice(task_complexity)
        ELSE IF priority = "Low" /\ score3 < 3 * Tenths(3)
        THEN "Gemini2Pro"
        ELSE IF task_complexity.thinking_needed
        THEN ThinkingChoice(score3)
        ELSE IF task_type = "CodeGeneration" /\ score3 > 3 * Tenths(6)
        THEN "Claude35Sonnet"
        ELSE IF priority = "Balanced"
        THEN BalancedChoice(score3)
        ELSE "Gemini25Pro"

\* estimate_cost billing every started thousand of tokens
estimate_cost_PerThousand(capabilities, model, input_tokens, estimated_output_tokens) ==
    IF model \in DOMAIN capabilities
    THEN [input_tokens |-> input_tokens,
          output_tokens |-> estimated_output_tokens,
          estimated_cost_usd |->
              ((input_tokens + 999) \div 1000) * 1000
                  * capabilities[model].cost_per_million_input
              + ((estimated_output_tokens + 999) \div 1000) * 1000
                  * capabilities[model].cost_per_million_output,
          model_used |-> model]
    ELSE [input_tokens |-> input_tokens,
          output_tokens |-> estimated_output_tokens,
          estimated_cost_usd |-> 0,
          model_used |-> "Unknown"]

\* estimate_cost pricing a backend without profile as Gemini25Pro
estimate_cost_FallbackProfile(capabilities, model, input_tokens, estimated_output_tokens) ==
    LET priced == IF model \in DOMAIN capabilities THEN model ELSE "Gemini25Pro"
    IN  [input_tokens |-> input_tokens,
         output_tokens |-> estimated_output_tokens,
         estimated_cost_usd |->
             input_tokens * capabilities[priced].cost_per_million_input
             + estimated_output_tokens * capabilities[priced].cost_per_million_output,
         model_used |-> priced]

\* CostOptimizer::estimate_cost
estimate_cost(capabilities, model, input_tokens, estimated_output_tokens) ==
    IF model \in DOMAIN capabilities
    THEN [input_tokens |-> input_tokens,
          output_tokens |-> estimated_output_tokens,
          estimated_cost_usd |->
              input_tokens * capabilities[model].cost_per_million_input
              + estimated_output_tokens * capabilities[model].cost_per_million_output,
          model_used |-> model]
    ELSE [input_tokens |-> input_tokens,
          output_tokens |-> estimated_output_tokens,
          estimated_cost_usd |-> 0,
          model_used |-> "Unknown"]

Ok == [ok |-> TRUE]
CostLimitExceeded(limit) == [ok |-> FALSE, err |-> "CostLimitExceeded", limit |-> limit]

\* mutant of check_cost_constraints: the per-task limit itself is rejected
check_cost_constraints_AtLimit(constraints, estimated_cost) ==
    IF /\ IsSome(constraints.max_cost_per_task)
       /\ estimated_cost >= constraints.max_cost_per_task[1]
    THEN CostLimitExceeded(constraints.max_cost_per_task[1])
    ELSE IF /\ IsSome(constraints.monthly_budget)
            /\ constraints.current_month_spent + estimated_cost
                   > constraints.monthly_budget[1]
    THEN CostLimitExceeded(constraints.monthly_budget[1])
    ELSE Ok

\* mutant of check_cost_constraints: the monthly budget is checked first
check_cost_constraints_BudgetFirst(constraints, estimated_cost) ==
    IF /\ IsSome(constraints.monthly_budget)
       /\ constraints.current_month_spent + estimated_cost
              > constraints.monthly_budget[1]
    THEN CostLimitExceeded(constraints.monthly_budget[1])
    ELSE IF /\ IsSome(constraints.max_cost_per_task)
            /\ estimated_cost > constraints.max_cost_per_task[1]
    THEN CostLimitExceeded(constraints.max_cost_per_task[1])
    ELSE Ok

\* CostOptimizer::check_cost_constraints
check_cost_constraints(constraints, estimated_cost) ==
    IF /\ IsSome(constraints.max_cost_per_task)
       /\ estimated_cost > constraints.max_cost_per_task[1]
    THEN CostLimitExceeded(constraints.max_cost_per_task[1])
    ELSE IF /\ IsSome(constraints.monthly_budget)
            /\ constraints.current_month_spent + estimated_cost
                   > constraints.monthly_budget[1]
    THEN CostLimitExceeded(constraints.monthly_budget[1])
    ELSE Ok

\* the history capacity of record_usage and complete_task
HistoryCapacity == 1000

\* record_usage keeping the oldest records
record_usage_DropNewest(history, record) ==
    LET pushed == Append(history, record)
    IN  IF Len(pushed) > HistoryCapacity
        THEN SubSeq(pushed, 1, HistoryCapacity) ELSE pushed

\* CostOptimizer::record_usage: the new usage_history
record_usage(history, record) ==
    LET pushed == Append(history, record)
    IN  IF Len(pushed) > HistoryCapacity THEN Tail(pushed) ELSE pushed

ReasoningIndicators ==
    <<"analyze", "explain", "reason", "think", "complex", "difficult", "solve">>
CodeIndicators ==
    <<"function", "class", "algorithm", "implement", "code", "programming", "api">>
ThinkingIndicators ==
    <<"step by step", "explain reasoning", "think through", "analyze carefully">>
MultimodalIndicators ==
    <<"image", "video", "audio", "visual", "picture">>

\* mutant of context_score: the word count normalised by 10
context_score_PerTen(description) ==
    Min((word_count(description) * One) \div 10, One)

\* mutant of context_score: the word count normalised by 100, not capped
context_score_Uncapped(description) ==
    (word_count(description) * One) \div 100

\* analyze_task_complexity: the context score, word_count/100 capped at 1
context_score(description) ==
    Min((word_count(description) * One) \div 100, One)

\* analyze_task_complexity
analyze_task_complexity(description) ==
    LET d == to_lowercase(description)
        reasoning_score ==
            (CountPresent(d, ReasoningIndicators) * One) \div Len(ReasoningIndicators)
        code_score ==
            (CountPresent(d, CodeIndicators) * One) \div Len(CodeIndicators)
    IN  [reasoning_required |-> reasoning_score,
         code_complexity |-> code_score,
         context_length |-> context_score(description),
         thinking_needed |->
             CountPresent(d, ThinkingIndicators) > 0 \/ reasoning_score > Tenths(6),
         multimodal |-> CountPresent(d, MultimodalIndicators) > 0]

-----------------------------------------------------------------------------
(* f64 quotients: a value is [num, den] in lowest terms; den > 0 for a     *)
(* finite value, and a division by zero gives Inf = 1/0 (x/0, x > 0) or     *)
(* NaN = 0/0, as in IEEE.  Every value of the model is >= 0.                 *)

RECURSIVE GCD(_, _)
GCD(a, b) == IF b = 0 THEN a ELSE GCD(b, a % b)

NaN == [num |-> 0, den |-> 0]
Inf == [num |-> 1, den |-> 0]
Rat(n, d) == LET g == GCD(n, d) IN [num |-> n \div g, den |-> d \div g]
F(n) == [num |-> n, den |-> 1]
IsFinite(x) == x.den # 0
IsZero(x) == IsFinite(x) /\ x.num = 0

FAdd(x, y) ==
    IF x = NaN \/ y = NaN THEN NaN
    ELSE IF x = Inf \/ y = Inf THEN Inf
    ELSE Rat(x.num * y.den + y.num * x.den, x.den * y.den)

FMul(x, y) ==
    IF x = NaN \/ y = NaN THEN NaN
    ELSE IF x = Inf \/ y = Inf
         THEN (IF IsZero(x) \/ IsZero(y) THEN NaN ELSE Inf)
    ELSE Rat(x.num * y.num, x.den * y.den)

FDiv(x, y) ==
    IF x = NaN \/ y = NaN THEN NaN
    ELSE IF y = Inf THEN (IF x = Inf THEN NaN ELSE F(0))
    ELSE IF x = Inf THEN Inf
    ELSE IF y.num = 0 THEN (IF x.num = 0 THEN NaN ELSE Inf)
    ELSE Rat(x.num * y.den, x.den * y.num)

\* 1.0 - x, for a finite x <= 1
FOneMinus(x) ==
    IF IsFinite(x) THEN Rat(x.den - x.num, x.den) ELSE NaN

FLess(x, y) ==
    /\ x # NaN /\ y # NaN /\ x # Inf
    /\ (y = Inf \/ x.num * y.den < y.num * x.den)

\* f64::max: the other operand when one is NaN
FMax(x, y) ==
    IF x = NaN THEN y
    ELSE IF y = NaN THEN x
    ELSE IF FLess(x, y) THEN y ELSE x

RECURSIVE FSum(_)
FSum(s) == IF s = <<>> THEN F(0) ELSE FAdd(Head(s), FSum(Tail(s)))

\* the values f(s[i]), in order
MapSeq(s, f(_)) == [i \in 1..Len(s) |-> f(s[i])]

-----------------------------------------------------------------------------
(* performance.rs *)

\* the trailing window of get_current_metrics, in seconds
WindowSecs == 3600

\* the capacity of real_time_buffer
RealTimeCapacity == 100

\* PerformanceMonitor::start_task: the TaskExecution it builds
NewTaskExecution(task_id, model, complexity_score, t) ==
    [id |-> task_id, start_time |-> t, end_time |-> None,
     duration_ms |-> None, model_used |-> model, success |-> FALSE,
     error |-> None, input_tokens |-> 0, output_tokens |-> 0, cost |-> 0,
     user_rating |-> None, complexity_score |-> complexity_score]

\* start_task keeping the execution it builds
start_task_Push(history, task) == Append(history, task)

\* PerformanceMonitor::start_task: the task_history it leaves.  The
\* TaskExecution is built and dropped: nothing is pushed to task_history.
start_task(history, task) == history

\* complete_task: the execution, filled in from the result
FillExecution(task, result, user_rating, t) ==
    LET timed == [task EXCEPT
            !.end_time = Some(t),
            !.duration_ms = IF t >= task.start_time
                            THEN Some((t - task.start_time) * 1000)
                            ELSE task.duration_ms]
        filled ==
            IF result.ok
            THEN IF IsSome(result.cost_estimate)
                 THEN [timed EXCEPT
                        !.success = result.verification_passed,
                        !.cost = result.cost_estimate[1].estimated_cost_usd,
                        !.input_tokens = result.cost_estimate[1].input_tokens,
                        !.output_tokens = result.cost_estimate[1].output_tokens]
                 ELSE [timed EXCEPT
                        !.success = result.verification_passed,
                        !.output_tokens = result.code_words]
            ELSE [timed EXCEPT !.success = FALSE, !.error = Some(result.error)]
    IN  [filled EXCEPT !.user_rating = user_rating]

\* the index of the first execution with this id, 0 when there is none
FindTask(history, task_id) ==
    IF \E i \in 1..Len(history) : history[i].id = task_id
    THEN CHOOSE i \in 1..Len(history) :
            /\ history[i].id = task_id
            /\ \A j \in 1..(i - 1) : history[j].id # task_id
    ELSE 0

\* PerformanceMonitor::update_real_time_metrics: the new real_time_buffer
update_real_time_metrics(buffer, task, t) ==
    LET response == IF IsSome(task.duration_ms)
                    THEN <<[timestamp |-> t, metric_type |-> "ResponseTime",
                            value |-> F(task.duration_ms[1])]>>
                    ELSE <<>>
        success == <<[timestamp |-> t, metric_type |-> "SuccessRate",
                      value |-> IF task.success THEN F(1) ELSE F(0)]>>
        cost == <<[timestamp |-> t, metric_type |-> "CostPerTask",
                   value |-> F(task.cost)]>>
        tokens == IF IsSome(task.duration_ms)
                  THEN <<[timestamp |-> t, metric_type |-> "TokensPerSecond",
                          value |-> FDiv(F(task.input_tokens + task.output_tokens),
                                         Rat(task.duration_ms[1], 1000))]>>
                  ELSE <<>>
        pushed == buffer \o response \o success \o cost \o tokens
    IN  IF Len(pushed) > RealTimeCapacity
        THEN SubSeq(pushed, Len(pushed) - RealTimeCapacity + 1, Len(pushed))
        ELSE pushed

NewModelPerformance(model) ==
    [model |-> model, total_tasks |-> 0, successful_tasks |-> 0,
     avg_response_time_ms |-> F(0), avg_cost_per_task |-> F(0),
     avg_user_rating |-> F(0)]

\* PerformanceMonitor::update_model_performance: the new model_performance
update_model_performance(perf, task) ==
    LET old == IF task.model_used \in DOMAIN perf
               THEN perf[task.model_used]
               ELSE NewModelPerformance(task.model_used)
        n == old.total_tasks + 1
        new == [old EXCEPT
            !.total_tasks = n,
            !.successful_tasks = IF task.success THEN @ + 1 ELSE @,
            !.avg_response_time_ms =
                IF IsSome(task.duration_ms)
                THEN FDiv(FAdd(FMul(@, F(n - 1)), F(task.duration_ms[1])), F(n))
                ELSE @,
            !.avg_cost_per_task =
                FDiv(FAdd(FMul(@, F(n - 1)), F(task.cost)), F(n)),
            !.avg_user_rating =
                IF IsSome(task.user_rating)
                THEN FDiv(FAdd(FMul(@, F(n)), F(task.user_rating[1])), F(n + 1))
                ELSE @]
    IN  [m \in (DOMAIN perf) \cup {task.model_used} |->
            IF m = task.model_used THEN new ELSE perf[m]]

\* PerformanceMonitor::complete_task: the new task_history
complete_task(history, task_id, result, user_rating, t) ==
    LET i == FindTask(history, task_id)
        filled == IF i = 0 THEN history
                  ELSE [history EXCEPT
                          ![i] = FillExecution(history[i], result, user_rating, t)]
    IN  IF Len(filled) > HistoryCapacity THEN Tail(filled) ELSE filled

\* the filter counting an execution that ended exactly one window ago
InWindow_Inclusive(task, t) ==
    /\ IsSome(task.end_time)
    /\ t >= task.end_time[1]
    /\ t - task.end_time[1] <= WindowSecs

\* the filter of get_current_metrics: the execution ended within the window
InWindow(task, t) ==
    /\ IsSome(task.end_time)
    /\ t >= task.end_time[1]
    /\ t - task.end_time[1] < WindowSecs

\* impl Default for AlertThresholds: 80 %, 30 s, 0.50 USD, 50 tokens/s
DefaultThresholds ==
    [min_success_rate |-> Rat(4, 5), max_response_time_ms |-> F(30000),
     max_cost_per_task |-> F(Cents(50)), min_tokens_per_second |-> F(50)]

ZeroMetrics ==
    [success_rate |-> F(0), avg_response_time_ms |-> F(0),
     speed_improvement_factor |-> F(1), cost_efficiency |-> F(0),
     user_satisfaction |-> F(0), throughput_tasks_per_hour |-> F(0),
     error_rate |-> F(0), avg_tokens_per_second |-> F(0)]

\* PerformanceMonitor::get_current_metrics
get_current_metrics(history, baseline, session, t) ==
    LET Recent(task) == InWindow(task, t)
        recent_tasks == SelectSeq(history, Recent)
        total_tasks == Len(recent_tasks)
        Succeeded(task) == task.success
        successful_tasks == Len(SelectSeq(recent_tasks, Succeeded))
        success_rate == FDiv(F(successful_tasks), F(total_tasks))
        Timed(task) == IsSome(task.duration_ms)
        timed_tasks == SelectSeq(recent_tasks, Timed)
        Duration(task) == F(task.duration_ms[1])
        avg_response_time ==
            FDiv(FSum(MapSeq(timed_tasks, Duration)), F(total_tasks))
        Cost(task) == F(task.cost)
        total_cost == FSum(MapSeq(recent_tasks, Cost))
        Rated(task) == IsSome(task.user_rating)
        rated_tasks == SelectSeq(recent_tasks, Rated)
        Rating(task) == F(task.user_rating[1])
        TokensPerSecond(task) ==
            FDiv(F(task.input_tokens + task.output_tokens),
                 Rat(task.duration_ms[1], 1000))
        \* total / max(elapsed hours, 1/3600)
        session_duration_hours == Rat(t - session, 3600)
    IN  IF total_tasks = 0
        THEN ZeroMetrics
        ELSE [success_rate |-> success_rate,
              avg_response_time_ms |-> avg_response_time,
              speed_improvement_factor |->
                  IF IsSome(baseline)
                  THEN FDiv(baseline[1].avg_response_time_ms,
                            FMax(avg_response_time, F(1)))
                  ELSE F(1),
              cost_efficiency |->
                  IF successful_tasks > 0
                  THEN FDiv(total_cost, F(successful_tasks)) ELSE F(0),
              user_satisfaction |->
                  FDiv(FSum(MapSeq(rated_tasks, Rating)),
                       F(Max(Len(rated_tasks), 1))),
              throughput_tasks_per_hour |->
                  FDiv(F(total_tasks), FMax(session_duration_hours, Rat(1, 3600))),
              error_rate |-> FOneMinus(success_rate),
              avg_tokens_per_second |->
                  FDiv(FSum(MapSeq(timed_tasks, TokensPerSecond)), F(total_tasks))]

-----------------------------------------------------------------------------
(* The reads of the monitor *)

\* get_alerts stopping at the first alert
get_alerts_FirstOnly(metrics, thresholds) ==
    IF FLess(metrics.success_rate, thresholds.min_success_rate)
    THEN <<[severity |-> "High", category |-> "Success Rate",
            value |-> metrics.success_rate,
            threshold |-> thresholds.min_success_rate]>>
    ELSE IF FLess(metrics.avg_tokens_per_second, thresholds.min_tokens_per_second)
    THEN <<[severity |-> "Medium", category |-> "Throughput",
            value |-> metrics.avg_tokens_per_second,
            threshold |-> thresholds.min_tokens_per_second]>>
    ELSE <<>>

\* PerformanceMonitor::get_alerts, from the current metrics: one alert per
\* test that holds, in the order of the tests
get_alerts(metrics, thresholds) ==
    (IF FLess(metrics.success_rate, thresholds.min_success_rate)
     THEN <<[severity |-> "High", category |-> "Success Rate",
             value |-> metrics.success_rate,
             threshold |-> thresholds.min_success_rate]>>
     ELSE <<>>)
    \o (IF FLess(thresholds.max_response_time_ms, metrics.avg_response_time_ms)
        THEN <<[severity |-> "Medium", category |-> "Response Time",
                value |-> metrics.avg_response_time_ms,
                threshold |-> thresholds.max_response_time_ms]>>
        ELSE <<>>)
    \o (IF FLess(thresholds.max_cost_per_task, metrics.cost_efficiency)
        THEN <<[severity |-> "Low", category |-> "Cost Efficiency",
                value |-> metrics.cost_efficiency,
                threshold |-> thresholds.max_cost_per_task]>>
        ELSE <<>>)
    \o (IF FLess(metrics.avg_tokens_per_second, thresholds.min_tokens_per_second)
        THEN <<[severity |-> "Medium", category |-> "Throughput",
                value |-> metrics.avg_tokens_per_second,
                threshold |-> thresholds.min_tokens_per_second]>>
        ELSE <<>>)

\* PerformanceMonitor::get_model_performance: the values of the map, in the
\* map's arbitrary order
get_model_performance(perf) == {perf[m] : m \in DOMAIN perf}

\* PerformanceTrends::default
DefaultTrends == [hourly_metrics |-> <<>>, overall_trend |-> "Stable"]

\* PerformanceMonitor::get_performance_trends
get_performance_trends(history, hours, t) ==
    LET cutoff_time == t - hours * 3600
        Relevant(task) == task.start_time > cutoff_time
        relevant_tasks == SelectSeq(history, Relevant)
        HourTasks(hour) ==
            LET hour_start == cutoff_time + hour * 3600
                hour_end == hour_start + 3600
                InHour(task) == /\ task.start_time >= hour_start
                                /\ task.start_time < hour_end
            IN  SelectSeq(relevant_tasks, InHour)
        HourlyMetric(hour) ==
            LET hour_tasks == HourTasks(hour)
                Successful(task) == task.success
                Timed(task) == IsSome(task.duration_ms)
                Duration(task) == F(task.duration_ms[1])
            IN  [hour |-> hour,
                 success_rate |->
                     FDiv(F(Len(SelectSeq(hour_tasks, Successful))),
                          F(Len(hour_tasks))),
                 avg_response_time_ms |->
                     FDiv(FSum(MapSeq(SelectSeq(hour_tasks, Timed), Duration)),
                          F(Len(hour_tasks))),
                 task_count |-> Len(hour_tasks)]
        NonEmpty(metric) == metric.task_count > 0
        hourly_metrics ==
            SelectSeq([h \in 1..hours |-> HourlyMetric(h - 1)], NonEmpty)
        first_success == hourly_metrics[1].success_rate
        last_success == hourly_metrics[Len(hourly_metrics)].success_rate
    IN  IF Len(relevant_tasks) = 0
        THEN DefaultTrends
        ELSE [hourly_metrics |-> hourly_metrics,
              overall_trend |->
                  IF Len(hourly_metrics) >= 2
                  THEN IF FLess(first_success, last_success) THEN "Improving"
                       ELSE IF FLess(last_success, first_success)
                            THEN "Degrading"
                       ELSE "Stable"
                  ELSE "Stable"]

\* the four reads of a monitor, at the instant t
Reads(history, perf, baseline, session, thresholds, t) ==
    [metrics |-> get_current_metrics(history, baseline, session, t),
     alerts |-> get_alerts(get_current_metrics(history, baseline, session, t),
                           thresholds),
     model_performance |-> get_model_performance(perf),
     trends |-> [hours \in 1..2 |-> get_performance_trends(history, hours, t)]]

-----------------------------------------------------------------------------
(* swarm/mod.rs *)

\* impl From<TaskPriority> for PriorityLevel
PriorityFrom(priority) ==
    CASE priority = "Low" -> "Low"
      [] priority = "Medium" -> "Balanced"
      [] priority = "High" -> "High"
      [] priority = "Critical" -> "Critical"

\* SwarmConfig::default: cost_constraints
DefaultSwarmConstraints ==
    [max_cost_per_task |-> Some(Cents(50)), monthly_budget |-> Some(Cents(10000)),
     current_month_spent |-> 0, priority_level |-> "Balanced"]

\* SwarmOrchestrator::analyze_and_optimize_selection
analyze_and_optimize_selection(constraints, task) ==
    LET task_complexity == analyze_task_complexity(task.description)
    IN  [selected_model |->
            select_optimal_model(constraints, task_complexity, task.description),
         task_complexity |-> task_complexity]

\* SwarmOrchestrator::verify_cost_constraints: the estimate it makes
EstimateTaskCost(capabilities, task, model, complexity) ==
    LET estimated_input_tokens == word_count(task.description)
        estimated_output_tokens ==
            IF complexity.code_complexity > Tenths(7) THEN 2000
            ELSE IF complexity.code_complexity > Tenths(4) THEN 1000
            ELSE 500
    IN  estimate_cost(capabilities, model,
                      estimated_input_tokens, estimated_output_tokens)

\* SwarmOrchestrator::verify_cost_constraints
verify_cost_constraints(constraints, capabilities, task, model, complexity) ==
    LET cost_estimate == EstimateTaskCost(capabilities, task, model, complexity)
    IN  IF /\ IsSome(task.max_cost_usd)
           /\ cost_estimate.estimated_cost_usd > task.max_cost_usd[1]
        THEN CostLimitExceeded(task.max_cost_usd[1])
        ELSE check_cost_constraints(constraints, cost_estimate.estimated_cost_usd)

\* the estimated cost of the backend selected for a task
SelectedCost(constraints, capabilities, task) ==
    LET sel == analyze_and_optimize_selection(constraints, task)
    IN  EstimateTaskCost(capabilities, task, sel.selected_model,
                         sel.task_complexity).estimated_cost_usd

\* the verdict of the cost check on a task: selection, then verification
CostVerdict(constraints, capabilities, task) ==
    LET sel == analyze_and_optimize_selection(constraints, task)
    IN  verify_cost_constraints(constraints, capabilities, task,
                                sel.selected_model, sel.task_complexity)

\* SwarmOrchestrator::execute_task: the SwarmExecutionResult it returns,
\* from what create_execution_plan returned
PlanResult(task, plan) ==
    [task_id |-> task.id,
     success |-> plan.ok,
     error |-> IF plan.ok THEN None
               ELSE Some([phase |-> "planning", cause |-> plan]),
     selected_adapter |-> "planner",
     selected_model |-> "Gemini25Pro",
     cost_actual |-> 0, cost_saved |-> 0, optimization_applied |-> FALSE]

\* create_adapter: the adapter types it can build
SupportedAdapters == {"gemini", "gemini-cli"}

-----------------------------------------------------------------------------
(* Inputs *)

\* Scenario A and Scenario B of the specification, a task with no keyword,
\* and a mixed-case code task
ScenarioA == "write a simple function to add two numbers"
ScenarioB == "analyze this complex distributed consensus algorithm and explain your reasoning step by step"
Descriptions == {ScenarioA, ScenarioB, "", "hello there", "Implement the API Class code"}

TaskIds == {"t1", "t2"}
AdapterNames == {"gemini", "claude"}

\* money: 0.0001 USD, 0.01 USD, 0.05 USD, 0.50 USD and 100 USD
Costs == {0, Cents(1) \div 100, Cents(1), Cents(5), Cents(50), Cents(10000)}

OptionOf(S) == {None} \cup {Some(v) : v \in S}

\* the tasks handed to execute_task
Tasks ==
    [id : {"t1"},
     description : {ScenarioA, ScenarioB, "hello there"},
     priority : {"Low", "Medium"},
     max_cost_usd : OptionOf({Cents(1) \div 100})]

\* the cost constraints an orchestrator is configured with
SwarmConstraints ==
    {DefaultSwarmConstraints} \cup
    [max_cost_per_task : OptionOf({Cents(1) \div 100, Cents(50)}),
     monthly_budget : OptionOf({Cents(10000)}),
     current_month_spent : {0},
     priority_level : {"Low", "Balanced", "Critical"}]

Unit(op) == [op |-> op]

\* a GeminiCLIFlow in API mode on which execute has not been called
NoFlow ==
    [mode |-> "ApiDirect", max_attempts |-> 3, pc |-> "idle",
     attempts |-> 0, parts |-> 0, api_calls |-> 0, tasks |-> 0]

-----------------------------------------------------------------------------
(* The orchestrator: Spec *)

\* a freshly constructed monitor and selector
NewComponents ==
    /\ model_capabilities = DefaultCapabilities
    /\ usage_history = <<>>
    /\ task_history = <<>>
    /\ model_performance = <<>>
    /\ real_time_buffer = <<>>
    /\ baseline_metrics = None
    /\ session_start = 0
    /\ alert_thresholds = DefaultThresholds
    /\ now = 0
    /\ trackers = {}
    /\ completions = <<>>
    /\ appended = 0
    /\ executed = 0

\* SwarmOrchestrator::new
Init ==
    /\ NewComponents
    /\ current_constraints \in SwarmConstraints
    /\ adapters = {}
    /\ default_adapter \in AdapterNames
    /\ flow = NoFlow
    /\ pc = "idle"
    /\ cur_task = None
    /\ ret = Unit("new")

\* SwarmOrchestrator::initialize: create_adapter for every configured name,
\* in the map's iteration order, stopping at the first that fails
Initialize(names, created) ==
    /\ pc = "idle"
    /\ created \subseteq names
    /\ \A n \in created : n \in SupportedAdapters
    /\ adapters' = adapters \cup created
    /\ ret' = [op |-> "initialize",
               val |-> IF created # names
                       THEN [ok |-> FALSE, err |-> "InvalidPrompt"]
                       ELSE IF adapters' = {}
                       THEN [ok |-> FALSE, err |-> "InvalidPrompt"]
                       ELSE Ok]
    /\ UNCHANGED <<optVars, monVars, histVars, default_adapter, pc, cur_task,
                   flow, now>>

\* SwarmOrchestrator::update_cost_constraints
UpdateCostConstraints(constraints) ==
    /\ pc = "idle"
    /\ current_constraints' = constraints
    /\ ret' = Unit("update_cost_constraints")
    /\ UNCHANGED <<model_capabilities, usage_history, monVars, orchVars,
                   histVars, now>>

\* the number of execute_task calls a behaviour makes
MaxExecuted == 2

\* SwarmOrchestrator::execute_task, up to the await of adapter.execute in
\* create_execution_plan; it returns at once when the default adapter is
\* not registered
ExecuteTaskCall(task) ==
    /\ pc = "idle"
    /\ executed < MaxExecuted
    /\ IF default_adapter \in adapters
       THEN /\ pc' = "awaiting"
            /\ cur_task' = Some(task)
            /\ ret' = Unit("execute_task_pending")
            /\ UNCHANGED executed
       ELSE /\ ret' = [op |-> "execute_task", task |-> task,
                       val |-> PlanResult(task,
                                 [ok |-> FALSE, err |-> "AdapterNotFound"])]
            /\ executed' = executed + 1
            /\ UNCHANGED <<pc, cur_task>>
    /\ UNCHANGED <<optVars, monVars, trackers, completions, appended,
                   adapters, default_adapter, flow, now>>

\* SwarmOrchestrator::execute_task, from the return of adapter.execute:
\* the adapter fails, or answers with text that is or is not a JSON plan
AdapterOutcomes ==
    {[ok |-> TRUE], [ok |-> FALSE, err |-> "AdapterError"],
     [ok |-> FALSE, err |-> "InvalidResponse"]}

AdapterReturn(plan) ==
    /\ pc = "awaiting"
    /\ pc' = "idle"
    /\ cur_task' = None
    /\ ret' = [op |-> "execute_task", task |-> cur_task[1],
               val |-> PlanResult(cur_task[1], plan)]
    /\ executed' = executed + 1
    /\ UNCHANGED <<optVars, monVars, trackers, completions, appended,
                   adapters, default_adapter, flow, now>>

\* SwarmOrchestrator::get_performance_metrics
GetPerformanceMetrics ==
    /\ pc = "idle"
    /\ ret' = [op |-> "get_performance_metrics", at |-> now,
               val |-> get_current_metrics(task_history, baseline_metrics,
                                           session_start, now)]
    /\ UNCHANGED <<optVars, monVars, orchVars, histVars, now>>

\* Usage statistics and the export of the orchestrator
\* UsageStats::default
DefaultUsageStats ==
    [total_tasks |-> 0, total_cost_usd |-> F(0), success_rate |-> F(0),
     avg_satisfaction |-> F(0), cost_per_successful_task |-> F(0)]

\* CostOptimizer::get_usage_stats
get_usage_stats(history) ==
    LET total_records == Len(history)
        Successful(r) == r.success
        Rated(r) == IsSome(r.user_satisfaction)
        Cost(r) == F(r.actual_cost)
        Satisfaction(r) == F(r.user_satisfaction[1])
        total_cost == FSum(MapSeq(history, Cost))
        success_rate ==
            FDiv(F(Len(SelectSeq(history, Successful))), F(total_records))
        avg_satisfaction ==
            FDiv(FSum(MapSeq(SelectSeq(history, Rated), Satisfaction)),
                 F(total_records))
    IN  IF total_records = 0
        THEN DefaultUsageStats
        ELSE [total_tasks |-> total_records,
              total_cost_usd |-> total_cost,
              success_rate |-> success_rate,
              avg_satisfaction |-> avg_satisfaction,
              cost_per_successful_task |->
                  IF FLess(F(0), success_rate)
                  THEN FDiv(total_cost, FMul(F(total_records), success_rate))
                  ELSE F(0)]

\* serde_json's text of a usize: its decimal digits
RECURSIVE to_json_number(_)
to_json_number(n) ==
    IF n < 10 THEN <<n>> ELSE Append(to_json_number(n \div 10), n % 10)

\* serde_json's reading of a usize from its decimal digits
RECURSIVE from_json_number(_)
from_json_number(digits) ==
    IF Len(digits) = 0 THEN 0
    ELSE 10 * from_json_number(SubSeq(digits, 1, Len(digits) - 1))
         + digits[Len(digits)]

\* SwarmOrchestrator::get_optimization_stats
get_optimization_stats(usage, history, baseline, session, t) ==
    LET cost_stats == get_usage_stats(usage)
        performance_metrics == get_current_metrics(history, baseline, session, t)
    IN  [total_tasks_executed |-> cost_stats.total_tasks,
         average_cost_per_task |-> cost_stats.cost_per_successful_task,
         success_rate |-> cost_stats.success_rate,
         current_success_rate |-> performance_metrics.success_rate,
         current_speed_improvement |->
             performance_metrics.speed_improvement_factor]

\* SwarmOrchestrator::export_detailed_metrics: the JSON text, field by
\* field, of the optimization_stats it serializes
export_detailed_metrics(usage, history, baseline, session, t) ==
    LET stats == get_optimization_stats(usage, history, baseline, session, t)
    IN  [optimization_stats |->
            [stats EXCEPT
                !.total_tasks_executed = to_json_number(@)],
         export_timestamp |-> to_json_number(t)]

\* a call of SwarmOrchestrator::export_detailed_metrics
ExportDetailedMetrics ==
    /\ pc = "idle"
    /\ ret' = [op |-> "export_detailed_metrics", at |-> now,
               val |-> export_detailed_metrics(usage_history, task_history,
                           baseline_metrics, session_start, now)]
    /\ UNCHANGED <<optVars, monVars, orchVars, histVars, now>>

Next ==
    \/ \E names \in SUBSET AdapterNames : \E created \in SUBSET names :
          Initialize(names, created)
    \/ \E c \in SwarmConstraints : UpdateCostConstraints(c)
    \/ \E task \in Tasks : ExecuteTaskCall(task)
    \/ \E plan \in AdapterOutcomes : AdapterReturn(plan)
    \/ GetPerformanceMetrics
    \/ ExportDetailedMetrics

Spec == Init /\ [][Next]_vars

-----------------------------------------------------------------------------
(* Claims on the orchestrator, under Spec *)

\* C1: the cost check comes before the adapter: adapter.execute is never
\* in progress for a task whose estimated cost exceeds a configured limit
\* (the task's own limit, the per-task limit or the budget ceiling).
C1_NoAdapterCallOverLimit ==
    pc = "awaiting" =>
        CostVerdict(current_constraints, model_capabilities, cur_task[1]).ok

\* C2: when the selected backend's estimated cost exceeds max_cost_per_task,
\* execute_task returns a CostLimitExceeded failure carrying a breached limit
\* (the task's own limit is checked first), and the monitor's task history,
\* the per-backend aggregates and the usage history are as they were.
C2_VetoReturnsCostLimitExceeded ==
    (/\ ret.op = "execute_task"
     /\ IsSome(current_constraints.max_cost_per_task)
     /\ SelectedCost(current_constraints, model_capabilities, ret.task)
            > current_constraints.max_cost_per_task[1])
    => /\ ~ret.val.success
       /\ ret.val.error =
            Some(CostVerdict(current_constraints, model_capabilities, ret.task))
       /\ task_history = <<>>
       /\ model_performance = <<>>
       /\ usage_history = <<>>

-----------------------------------------------------------------------------
(* The selector on its own: SpecOptimizer *)

\* scores, in tenths, that put the overall score on, below and above each
\* threshold of select_optimal_model (0.3, 0.4, 0.6, 0.7)
Complexities ==
    [reasoning_required : {0, Tenths(3), Tenths(7), One},
     code_complexity : {0, Tenths(3), Tenths(4), Tenths(6), One},
     context_length : {0, Tenths(3), Tenths(5), One},
     thinking_needed : BOOLEAN,
     multimodal : BOOLEAN]

\* a task detect_task_type classifies as CodeGeneration, and one it does not
SelectDescriptions == {ScenarioA, "hello there"}

OptimizerConstraints ==
    [max_cost_per_task : OptionOf({Cents(1), Cents(50)}),
     monthly_budget : OptionOf({Cents(50)}),
     current_month_spent : {0, Cents(49)},
     priority_level : PriorityLevel]

\* CostOptimizer::new
InitOptimizer ==
    /\ NewComponents
    /\ current_constraints \in OptimizerConstraints
    /\ adapters = {}
    /\ default_adapter = "gemini"
    /\ flow = NoFlow
    /\ pc = "idle"
    /\ cur_task = None
    /\ ret = Unit("new")

\* a call of CostOptimizer::select_optimal_model
SelectOptimalModel(task_complexity, description) ==
    /\ ret' = [op |-> "select_optimal_model",
               task_complexity |-> task_complexity,
               description |-> description,
               val |-> select_optimal_model(current_constraints,
                                            task_complexity, description)]
    /\ UNCHANGED <<optVars, monVars, orchVars, histVars, now>>

\* a call of analyze_task_complexity followed by select_optimal_model on
\* its result, as analyze_and_optimize_selection makes them
AnalyzeAndSelect(description) ==
    /\ ret' = [op |-> "analyze_and_optimize_selection",
               description |-> description,
               val |-> analyze_and_optimize_selection(current_constraints,
                           [description |-> description])]
    /\ UNCHANGED <<optVars, monVars, orchVars, histVars, now>>

\* a call of CostOptimizer::check_cost_constraints
CheckCostConstraints(estimated_cost) ==
    /\ ret' = [op |-> "check_cost_constraints",
               estimated_cost |-> estimated_cost,
               val |-> check_cost_constraints(current_constraints, estimated_cost)]
    /\ UNCHANGED <<optVars, monVars, orchVars, histVars, now>>

\* no call has been made yet
Fresh == ret.op = "new"

\* one call on each optimizer: the calls change no field of it
NextOptimizer ==
    \/ Fresh /\ \E tc \in Complexities : \E d \in SelectDescriptions :
                   SelectOptimalModel(tc, d)
    \/ Fresh /\ \E d \in Descriptions : AnalyzeAndSelect(d)
    \/ Fresh /\ \E c \in Costs : CheckCostConstraints(c)

SpecOptimizer == InitOptimizer /\ [][NextOptimizer]_vars

-----------------------------------------------------------------------------
(* Claims on the selector, under SpecOptimizer *)

\* C3: check_cost_constraints(c) returns CostLimitExceeded exactly when the
\* per-task limit is set and c exceeds it, or the monthly budget is set and
\* current_month_spent + c exceeds it; otherwise Ok, also at c equal to the
\* per-task limit.
C3_CheckRejectsExactlyOverLimit ==
    ret.op = "check_cost_constraints" =>
        LET k == current_constraints
            c == ret.estimated_cost
            over == \/ (k.max_cost_per_task # None /\ c > k.max_cost_per_task[1])
                    \/ (k.monthly_budget # None
                        /\ k.current_month_spent + c > k.monthly_budget[1])
        IN  /\ over => (~ret.val.ok /\ ret.val.err = "CostLimitExceeded")
            /\ ~over => ret.val = Ok

\* C3 witness: a check at exactly the per-task limit, within budget, is Ok
C3_Witness ==
    /\ ret.op = "check_cost_constraints"
    /\ current_constraints.max_cost_per_task = Some(ret.estimated_cost)
    /\ current_constraints.monthly_budget # None
    /\ ret.val = Ok

\* the profiled backends whose thinking support is the one asked for
Matching(thinking_needed) ==
    {m \in DOMAIN model_capabilities :
        model_capabilities[m].thinking_support = thinking_needed}

\* C8: at priority Critical the backend returned has the highest
\* performance score among the profiled backends whose thinking support
\* matches thinking_needed.
C8_CriticalPicksMostCapable ==
    (ret.op = "select_optimal_model"
     /\ current_constraints.priority_level = "Critical") =>
        /\ ret.val \in Matching(ret.task_complexity.thinking_needed)
        /\ \A m \in Matching(ret.task_complexity.thinking_needed) :
              model_capabilities[m].performance_score
                  <= model_capabilities[ret.val].performance_score

\* C8 witness: a Critical selection for a task that needs no thinking
C8_Witness ==
    /\ ret.op = "select_optimal_model"
    /\ current_constraints.priority_level = "Critical"
    /\ ~ret.task_complexity.thinking_needed
    /\ ret.val = "Claude35Sonnet"

\* the six rules of the selection, each with the condition under which it
\* matches and the backend it gives
RuleMatches(n, priority, tc, description) ==
    LET score3 == tc.reasoning_required + tc.code_complexity + tc.context_length
    IN  CASE n = 1 -> priority = "Critical"
          [] n = 2 -> priority = "Low" /\ score3 * 10 < 3 * 3 * One
          [] n = 3 -> tc.thinking_needed
          [] n = 4 -> /\ detect_task_type(description) = "CodeGeneration"
                      /\ score3 * 10 > 3 * 6 * One
          [] n = 5 -> priority = "Balanced"
          [] n = 6 -> TRUE

RuleOutcome(n, tc) ==
    LET score3 == tc.reasoning_required + tc.code_complexity + tc.context_length
    IN  CASE n = 1 -> IF tc.thinking_needed THEN "Claude37Sonnet"
                      ELSE "Claude35Sonnet"
          [] n = 2 -> "Gemini2Pro"
          [] n = 3 -> IF score3 * 10 > 3 * 7 * One THEN "Claude37Sonnet"
                      ELSE "Gemini25Pro"
          [] n = 4 -> "Claude35Sonnet"
          [] n = 5 -> IF score3 * 10 > 3 * 7 * One THEN "Gemini25Pro"
                      ELSE IF score3 * 10 > 3 * 4 * One THEN "Gemini25Flash"
                      ELSE "Gemini2Pro"
          [] n = 6 -> "Gemini25Pro"

\* C9: the backend returned is the outcome of the first rule that matches,
\* in the order Critical, Low and cheap, thinking, code-heavy, Balanced
\* tiers, default (a code-heavy task being one detect_task_type classifies
\* as CodeGeneration).
C9_FirstMatchingRuleWins ==
    ret.op = "select_optimal_model" =>
        \A n \in 1..6 :
            (/\ RuleMatches(n, current_constraints.priority_level,
                            ret.task_complexity, ret.description)
             /\ \A k \in 1..(n - 1) :
                   ~RuleMatches(k, current_constraints.priority_level,
                                ret.task_complexity, ret.description))
            => ret.val = RuleOutcome(n, ret.task_complexity)

\* C9 witness: a Low-priority cheap task that also needs thinking: rule 2
\* matches before rule 3
C9_Witness ==
    /\ ret.op = "select_optimal_model"
    /\ current_constraints.priority_level = "Low"
    /\ ret.task_complexity.thinking_needed
    /\ complexity_score3(ret.task_complexity) < 3 * Tenths(3)
    /\ ret.val = "Gemini2Pro"

\* a backend no profiled backend is cheaper than, on input or on output
Cheapest(m) ==
    /\ m \in DOMAIN model_capabilities
    /\ \A o \in DOMAIN model_capabilities :
          /\ model_capabilities[m].cost_per_million_input
                <= model_capabilities[o].cost_per_million_input
          /\ model_capabilities[m].cost_per_million_output
                <= model_capabilities[o].cost_per_million_output

\* C10: at priority Low with an overall score below 0.3 the backend returned
\* is the cheapest of the profile table; the task of Scenario A has an
\* overall score below 0.3 and gets the cheapest backend at priority Low.
C10_LowCheapPicksCheapest ==
    /\ (/\ ret.op = "select_optimal_model"
        /\ current_constraints.priority_level = "Low"
        /\ complexity_score3(ret.task_complexity) * 10 < 3 * 3 * One)
       => Cheapest(ret.val)
    /\ (/\ ret.op = "analyze_and_optimize_selection"
        /\ ret.description = ScenarioA
        /\ current_constraints.priority_level = "Low")
       => /\ complexity_score3(ret.val.task_complexity) * 10 < 3 * 3 * One
          /\ Cheapest(ret.val.selected_model)

\* C10 witness: Scenario A analyzed and selected at priority Low
C10_Witness ==
    /\ ret.op = "analyze_and_optimize_selection"
    /\ ret.description = ScenarioA
    /\ current_constraints.priority_level = "Low"
    /\ ret.val.selected_model = "Gemini2Pro"

-----------------------------------------------------------------------------
(* The monitor and the selector driven through their public methods:       *)
(* SpecMonitor.  The clock moves between calls.                             *)

\* the instants of the clock: around the start and around the window's end
Clock == {0, 1, WindowSecs - 1, WindowSecs, WindowSecs + 1}

\* the number of complete_task calls a behaviour records
MaxCompletions == 3

\* what an adapter hands back to complete_task: a CodeGenerationResult
\* (verified or not, with or without a cost estimate) or a FlowError
Outcomes ==
    [ok : {TRUE}, verification_passed : BOOLEAN, code_words : {3},
     cost_estimate : OptionOf({[estimated_cost_usd |-> 4016,
                                input_tokens |-> 8, output_tokens |-> 500]})]
    \cup {[ok |-> FALSE, error |-> "AdapterError"]}

Ratings == OptionOf({4})

\* the success flag of an outcome
OutcomeSucceeded(result) == result.ok /\ result.verification_passed

\* the clock moves on
Tick(t) ==
    /\ t > now
    /\ now' = t
    /\ UNCHANGED <<optVars, monVars, orchVars, histVars, ret>>

\* PerformanceMonitor::start_task; the call is recorded with its instant
\* and the monitor as it found it
StartTask(task_id, model, complexity_score) ==
    /\ task_history' = start_task(task_history,
            NewTaskExecution(task_id, model, complexity_score, now))
    /\ trackers' = trackers \cup {task_id}
    /\ ret' = [op |-> "start_task", id |-> task_id, at |-> now,
               before |-> [task_history |-> task_history,
                           model_performance |-> model_performance]]
    /\ UNCHANGED <<optVars, model_performance, real_time_buffer,
                   baseline_metrics, session_start, alert_thresholds,
                   orchVars, completions, appended, executed, now>>

\* PerformanceMonitor::complete_task, called directly or by
\* TaskTracker::complete
CompleteTask(task_id, result, user_rating) ==
    LET i == FindTask(task_history, task_id)
        history == complete_task(task_history, task_id, result, user_rating, now)
        task_data == FillExecution(task_history[i], result, user_rating, now)
    IN  /\ Len(completions) < MaxCompletions
        /\ task_history' = history
        /\ IF i # 0
           THEN /\ real_time_buffer' =
                      update_real_time_metrics(real_time_buffer, task_data, now)
                /\ model_performance' =
                      update_model_performance(model_performance, task_data)
           ELSE UNCHANGED <<real_time_buffer, model_performance>>
        /\ trackers' = trackers \ {task_id}
        /\ completions' = Append(completions,
                [id |-> task_id, tracked |-> task_id \in trackers,
                 success |-> OutcomeSucceeded(result), at |-> now])
        /\ ret' = [op |-> "complete_task", id |-> task_id,
                   tracked |-> task_id \in trackers,
                   success |-> OutcomeSucceeded(result)]
        /\ UNCHANGED <<optVars, baseline_metrics, session_start,
                       alert_thresholds, orchVars, appended, executed, now>>

\* a call of PerformanceMonitor::get_current_metrics
GetCurrentMetrics ==
    /\ ret' = [op |-> "get_current_metrics", at |-> now,
               val |-> get_current_metrics(task_history, baseline_metrics,
                                           session_start, now)]
    /\ UNCHANGED <<optVars, monVars, orchVars, histVars, now>>

\* PerformanceMonitor::new
InitMonitor ==
    /\ NewComponents
    /\ current_constraints = DefaultConstraints
    /\ adapters = {}
    /\ default_adapter = "gemini"
    /\ flow = NoFlow
    /\ pc = "idle"
    /\ cur_task = None
    /\ ret = Unit("new")

NextMonitor ==
    \/ \E t \in Clock : Tick(t)
    \/ \E id \in TaskIds : \E m \in {"Gemini2Pro"} : \E score \in {Tenths(3)} :
          StartTask(id, m, score)
    \/ \E id \in TaskIds : \E r \in Outcomes : \E rating \in Ratings :
          CompleteTask(id, r, rating)
    \/ GetCurrentMetrics

SpecMonitor == InitMonitor /\ [][NextMonitor]_vars

-----------------------------------------------------------------------------
(* Claims on the monitor, under SpecMonitor *)

\* the executions of the task history with this id
WithId(id) == {i \in 1..Len(task_history) : task_history[i].id = id}

\* C5: after start_task(id, ...) followed by complete_task(id, outcome, ...)
\* the task history holds exactly one execution with that id, its end time
\* set and its success flag the outcome's.
C5_CompletedTaskIsRecorded ==
    (ret.op = "complete_task" /\ ret.tracked) =>
        /\ Cardinality(WithId(ret.id)) = 1
        /\ \A i \in WithId(ret.id) :
              /\ IsSome(task_history[i].end_time)
              /\ task_history[i].success = ret.success

\* the tracked completions that fall in the window that ends at t
CompletedInWindow(t) ==
    {i \in 1..Len(completions) :
        /\ completions[i].tracked
        /\ completions[i].at <= t
        /\ t - completions[i].at < WindowSecs}

SucceededInWindow(t) == {i \in CompletedInWindow(t) : completions[i].success}

\* C6: after k executions started and completed within the trailing hour,
\* s of them successful, the current metrics report success_rate = s/k.
C6_SuccessRateIsSOverK ==
    (ret.op = "get_current_metrics"
     /\ Len(completions) = Cardinality(CompletedInWindow(ret.at))
     /\ CompletedInWindow(ret.at) # {}) =>
        ret.val.success_rate =
            Rat(Cardinality(SucceededInWindow(ret.at)),
                Cardinality(CompletedInWindow(ret.at)))

-----------------------------------------------------------------------------
(* The two histories filled past their capacity: SpecHistory *)

\* the number of record_usage calls made beyond the capacity
MaxOverflow == 3

\* the record of the n-th record_usage call; the caller stamps it with the
\* time of the call, one instant per call
NthRecord(n) ==
    [timestamp |-> n, model_used |-> "Gemini2Pro",
     actual_cost |-> 4016, success |-> n % 2 = 0,
     user_satisfaction |-> None]

\* mutant of RecordUsage: the record's cost is added to the month's spending
RecordUsage_AddsSpent(record) ==
    /\ appended < HistoryCapacity + MaxOverflow
    /\ usage_history' = record_usage(usage_history, record)
    /\ current_constraints' =
          [current_constraints EXCEPT
              !.current_month_spent = @ + record.actual_cost]
    /\ appended' = appended + 1
    /\ ret' = Unit("record_usage")
    /\ UNCHANGED <<model_capabilities, monVars, orchVars,
                   trackers, completions, executed, now>>

\* a call of CostOptimizer::record_usage
RecordUsage(record) ==
    /\ appended < HistoryCapacity + MaxOverflow
    /\ usage_history' = record_usage(usage_history, record)
    /\ appended' = appended + 1
    /\ ret' = Unit("record_usage")
    /\ UNCHANGED <<model_capabilities, current_constraints, monVars, orchVars,
                   trackers, completions, executed, now>>

InitHistory == InitMonitor

NextHistory ==
    \/ RecordUsage(NthRecord(appended + 1))
    \/ StartTask("t1", "Gemini2Pro", Tenths(3))
    \/ CompleteTask("t1", [ok |-> FALSE, error |-> "AdapterError"], None)

SpecHistory == InitHistory /\ [][NextHistory]_vars

\* C4: the usage history and the task history never hold more than 1000
\* entries; after N record_usage calls the usage history holds the
\* min(N, 1000) most recently appended records, in append order.
C4_HistoriesKeepMostRecent ==
    /\ Len(usage_history) <= HistoryCapacity
    /\ Len(task_history) <= HistoryCapacity
    /\ Len(usage_history) = Min(appended, HistoryCapacity)
    /\ \A i \in 1..Len(usage_history) :
          usage_history[i] = NthRecord(appended - Len(usage_history) + i)

\* more than 1000 records were appended, around start_task and complete_task
C4_Witness ==
    /\ appended > HistoryCapacity
    /\ Len(usage_history) = HistoryCapacity
    /\ Len(completions) > 0

-----------------------------------------------------------------------------
(* get_current_metrics as a function of the history it reads: SpecMetrics. *)
(* start_task leaves the history empty, so the histories other than the    *)
(* empty one are drawn as inputs of the function.                           *)

\* the longest history drawn
MaxHistory == 2

\* the outcomes of the executions drawn: verified with a cost estimate,
\* unverified, and failed
HistoryOutcomes ==
    {[ok |-> TRUE, verification_passed |-> TRUE, code_words |-> 3,
      cost_estimate |-> Some([estimated_cost_usd |-> 4016,
                              input_tokens |-> 8, output_tokens |-> 500])],
     [ok |-> TRUE, verification_passed |-> FALSE, code_words |-> 3,
      cost_estimate |-> None],
     [ok |-> FALSE, error |-> "AdapterError"]}

\* executions: one still open, started at the session's start, and those
\* completed at an instant of the clock, a second after they started (at
\* once for the one completed at 0)
Executions ==
    LET Started(t) == NewTaskExecution("t1", "Gemini2Pro", Tenths(3), t)
    IN  {Started(0)} \cup
        {FillExecution(Started(Max(t - 1, 0)), r, Some(4), t) :
            r \in HistoryOutcomes, t \in Clock}

Histories ==
    UNION {[1..n -> Executions] : n \in 0..MaxHistory}

Baselines == OptionOf({[ZeroMetrics EXCEPT !.avg_response_time_ms = F(2000)]})

InitMetrics ==
    /\ model_capabilities = DefaultCapabilities
    /\ usage_history = <<>>
    /\ current_constraints = DefaultConstraints
    /\ task_history \in Histories
    /\ model_performance = <<>>
    /\ real_time_buffer = <<>>
    /\ baseline_metrics \in Baselines
    /\ session_start = 0
    /\ alert_thresholds = DefaultThresholds
    /\ now \in Clock
    /\ adapters = {}
    /\ default_adapter = "gemini"
    /\ flow = NoFlow
    /\ pc = "idle"
    /\ cur_task = None
    /\ trackers = {}
    /\ completions = <<>>
    /\ appended = 0
    /\ executed = 0
    /\ ret = Unit("new")

NextMetrics ==
    \/ \E t \in Clock : Tick(t)
    \/ GetCurrentMetrics

SpecMetrics == InitMetrics /\ [][NextMetrics]_vars

\* the executions that ended within the hour before t
EndedInLastHour(t) ==
    {i \in 1..Len(task_history) :
        /\ task_history[i].end_time # None
        /\ task_history[i].end_time[1] <= t
        /\ t - task_history[i].end_time[1] <= WindowSecs - 1}

\* C7: when no completed execution falls inside the trailing window,
\* get_current_metrics returns success rate, average response time, cost
\* efficiency, throughput and tokens per second 0, and no field is the
\* result of a division by zero.
C7_EmptyWindowGivesZeros ==
    (ret.op = "get_current_metrics" /\ EndedInLastHour(ret.at) = {}) =>
        /\ ret.val.success_rate = F(0)
        /\ ret.val.avg_response_time_ms = F(0)
        /\ ret.val.cost_efficiency = F(0)
        /\ ret.val.throughput_tasks_per_hour = F(0)
        /\ ret.val.avg_tokens_per_second = F(0)
        /\ \A f \in DOMAIN ret.val : IsFinite(ret.val[f])

\* a read of the metrics when the only verified execution ended an hour ago
C7_Witness ==
    /\ ret.op = "get_current_metrics"
    /\ EndedInLastHour(ret.at) = {}
    /\ \E i \in 1..Len(task_history) :
          /\ task_history[i].success
          /\ ret.at - task_history[i].end_time[1] = WindowSecs
    /\ ret.val.success_rate = F(0)

-----------------------------------------------------------------------------
(* More claims on the selector, under SpecOptimizer *)

\* C11: for the task of Scenario B at priority Balanced the analyzer yields
\* thinking_needed and an overall score above 0.7, and the selection is the
\* best thinking-capable backend.
C11_ScenarioBGetsExtendedReasoning ==
    (/\ ret.op = "analyze_and_optimize_selection"
     /\ ret.description = ScenarioB
     /\ current_constraints.priority_level = "Balanced")
    => /\ ret.val.task_complexity.thinking_needed
       /\ complexity_score3(ret.val.task_complexity) * 10 > 3 * 7 * One
       /\ ret.val.selected_model \in Matching(TRUE)
       /\ \A m \in Matching(TRUE) :
             model_capabilities[m].performance_score
                <= model_capabilities[ret.val.selected_model].performance_score

\* C12: every backend select_optimal_model returns has a profile in the
\* capability table, and the table is never changed.
C12_ReturnedBackendsHaveProfiles ==
    /\ model_capabilities = DefaultCapabilities
    /\ ret.op = "select_optimal_model" => ret.val \in DOMAIN model_capabilities

-----------------------------------------------------------------------------
(* More claims on the orchestrator, under Spec *)

\* C13: the total_tasks_executed read back from the JSON of
\* export_detailed_metrics is the number of tasks the orchestrator has
\* completed at export time.
C13_ExportCountsCompletedTasks ==
    ret.op = "export_detailed_metrics" =>
        from_json_number(ret.val.optimization_stats.total_tasks_executed)
            = executed

\* C14: when the adapter fails for a task that passed the cost check,
\* execute_task leaves exactly one failed execution with an error text in
\* the monitor and exactly one usage record with success = false and cost
\* 0, and returns a failure.
C14_AdapterErrorIsRecorded ==
    (/\ ret.op = "execute_task"
     /\ executed = 1
     /\ ret.val.error = Some([phase |-> "planning",
                              cause |-> [ok |-> FALSE, err |-> "AdapterError"]])
     /\ CostVerdict(current_constraints, model_capabilities, ret.task).ok)
    => /\ ~ret.val.success
       /\ Len(task_history) = 1
       /\ ~task_history[1].success
       /\ IsSome(task_history[1].error)
       /\ Len(usage_history) = 1
       /\ ~usage_history[1].success
       /\ usage_history[1].actual_cost = 0

-----------------------------------------------------------------------------
(* The reads of a monitor that holds executions: SpecReads.  As in         *)
(* SpecMetrics the histories are drawn as inputs of the reads, with the    *)
(* per-backend aggregates complete_task would have computed from them.     *)

\* the longest history the reads are made on
MaxReadHistory == 2

\* a verified execution that cost 0.60 USD, above the alert threshold
ExpensiveOutcome ==
    [ok |-> TRUE, verification_passed |-> TRUE, code_words |-> 3,
     cost_estimate |-> Some([estimated_cost_usd |-> Cents(60),
                             input_tokens |-> 8, output_tokens |-> 500])]

\* the outcomes of the executions read: verified, failed, and expensive
ReadOutcomes ==
    {r \in HistoryOutcomes : r.ok => r.verification_passed}
    \cup {ExpensiveOutcome}

\* executions started at the session's start: still open, or completed
\* after a second or after an hour
ReadExecutions ==
    LET open == NewTaskExecution("t2", "Gemini2Pro", Tenths(3), 0)
    IN  {open} \cup
        {FillExecution(open, r, Some(4), t) :
            r \in ReadOutcomes, t \in {1, WindowSecs}}

ReadHistories ==
    UNION {[1..n -> ReadExecutions] : n \in 0..MaxReadHistory}

\* the aggregates after complete_task has filled the executions of a
\* history, in order
RECURSIVE PerformanceOf(_)
PerformanceOf(history) ==
    IF history = <<>> THEN <<>>
    ELSE LET n == Len(history)
             before == PerformanceOf(SubSeq(history, 1, n - 1))
         IN  IF IsSome(history[n].end_time)
             THEN update_model_performance(before, history[n])
             ELSE before

InitReads ==
    /\ model_capabilities = DefaultCapabilities
    /\ usage_history = <<>>
    /\ current_constraints = DefaultConstraints
    /\ task_history \in ReadHistories
    /\ model_performance = PerformanceOf(task_history)
    /\ real_time_buffer = <<>>
    /\ baseline_metrics = None
    /\ session_start = 0
    /\ alert_thresholds = DefaultThresholds
    /\ now \in Clock
    /\ adapters = {}
    /\ default_adapter = "gemini"
    /\ flow = NoFlow
    /\ pc = "idle"
    /\ cur_task = None
    /\ trackers = {}
    /\ completions = <<>>
    /\ appended = 0
    /\ executed = 0
    /\ ret = Unit("new")

\* a call of PerformanceMonitor::get_alerts
GetAlerts ==
    /\ ret' = [op |-> "get_alerts", at |-> now,
               val |-> get_alerts(
                          get_current_metrics(task_history, baseline_metrics,
                                              session_start, now),
                          alert_thresholds)]
    /\ UNCHANGED <<optVars, monVars, orchVars, histVars, now>>

\* a call of PerformanceMonitor::get_model_performance
GetModelPerformance ==
    /\ ret' = [op |-> "get_model_performance", at |-> now,
               val |-> get_model_performance(model_performance)]
    /\ UNCHANGED <<optVars, monVars, orchVars, histVars, now>>

\* a call of PerformanceMonitor::get_performance_trends
GetPerformanceTrends(hours) ==
    /\ ret' = [op |-> "get_performance_trends", at |-> now, hours |-> hours,
               val |-> get_performance_trends(task_history, hours, now)]
    /\ UNCHANGED <<optVars, monVars, orchVars, histVars, now>>

NextReads ==
    \/ \E t \in Clock : Tick(t)
    \/ Fresh /\ StartTask("t1", "Gemini2Pro", Tenths(3))
    \/ GetCurrentMetrics
    \/ GetAlerts
    \/ GetModelPerformance
    \/ \E hours \in 1..2 : GetPerformanceTrends(hours)

SpecReads == InitReads /\ [][NextReads]_vars

\* C15: a task opened with start_task and not completed is absent from the
\* reads: from the start_task on, get_current_metrics, get_alerts,
\* get_model_performance and get_performance_trends give what they would
\* give on the monitor as the start_task found it, and are defined.
C15_OpenTaskAbsentFromReads ==
    ret.op = "start_task" =>
        Reads(task_history, model_performance, baseline_metrics,
              session_start, alert_thresholds, now)
        = Reads(ret.before.task_history, ret.before.model_performance,
                baseline_metrics, session_start, alert_thresholds, now)

\* C15 witness: a task opened and still open an hour later, on a monitor
\* that holds an execution without an end time and a completed one
C15_Witness ==
    /\ ret.op = "start_task"
    /\ ret.id \in trackers
    /\ now >= ret.at + WindowSecs
    /\ \E i \in 1..Len(task_history) : task_history[i].end_time = None
    /\ \E i \in 1..Len(task_history) : task_history[i].end_time # None

\* the thresholds the metrics breach
Breached(metrics, thresholds) ==
    LET Below(x, y) == /\ IsFinite(x) /\ IsFinite(y)
                       /\ x.num * y.den < y.num * x.den
        Above(x, y) == \/ Below(y, x)
                       \/ (x = Inf /\ IsFinite(y))
    IN  {c \in {"Success Rate"} :
            Below(metrics.success_rate, thresholds.min_success_rate)}
        \cup {c \in {"Response Time"} :
            Above(metrics.avg_response_time_ms, thresholds.max_response_time_ms)}
        \cup {c \in {"Cost Efficiency"} :
            Above(metrics.cost_efficiency, thresholds.max_cost_per_task)}
        \cup {c \in {"Throughput"} :
            Below(metrics.avg_tokens_per_second, thresholds.min_tokens_per_second)}

\* C19: get_alerts returns one alert for each breached threshold and none
\* for an unbreached one: at most 4 alerts, of pairwise distinct categories.
C19_OneAlertPerBreach ==
    ret.op = "get_alerts" =>
        LET metrics == get_current_metrics(task_history, baseline_metrics,
                                           session_start, ret.at)
        IN  /\ Len(ret.val) <= 4
            /\ \A i, j \in 1..Len(ret.val) :
                  ret.val[i].category = ret.val[j].category => i = j
            /\ {ret.val[i].category : i \in 1..Len(ret.val)}
                  = Breached(metrics, alert_thresholds)

\* C19 witness: alerts for the cost and the response time of a verified
\* execution, and none for its success rate
C19_Witness ==
    /\ ret.op = "get_alerts"
    /\ {ret.val[i].category : i \in 1..Len(ret.val)}
          \in {{"Response Time", "Cost Efficiency", "Throughput"},
               {"Cost Efficiency"}}

-----------------------------------------------------------------------------
(* estimate_cost on its own: SpecEstimate *)

\* token counts: none, one, the 8 words of Scenario A, and the output sizes
\* verify_cost_constraints assumes
Tokens == {0, 1, 8, 500, 1000}

\* a call of CostOptimizer::estimate_cost
EstimateCost(model, input_tokens, estimated_output_tokens) ==
    /\ ret' = [op |-> "estimate_cost", model |-> model,
               input_tokens |-> input_tokens,
               estimated_output_tokens |-> estimated_output_tokens,
               val |-> estimate_cost(model_capabilities, model,
                                     input_tokens, estimated_output_tokens)]
    /\ UNCHANGED <<optVars, monVars, orchVars, histVars, now>>

InitEstimate == InitMonitor

NextEstimate ==
    \E model \in ModelChoice : \E i \in Tokens : \E o \in Tokens :
        EstimateCost(model, i, o)

SpecEstimate == InitEstimate /\ [][NextEstimate]_vars

C17_UnknownBackendGetsZeroEstimate ==
    (ret.op = "estimate_cost" /\ ret.model \notin DOMAIN model_capabilities) =>
        ret.val = [input_tokens |-> ret.input_tokens,
                   output_tokens |-> ret.estimated_output_tokens,
                   estimated_cost_usd |-> 0,
                   model_used |-> "Unknown"]

\* C17 witness: an estimate for Gemini25Flash, which has no profile
C17_Witness ==
    /\ ret.op = "estimate_cost"
    /\ ret.model = "Gemini25Flash"
    /\ ret.input_tokens = 8
    /\ ret.estimated_output_tokens = 1000
    /\ ret.val.model_used = "Unknown"

-----------------------------------------------------------------------------
(* The usage statistics of the selector: SpecUsage *)

\* the number of records appended before the statistics are read
MaxUsage == 3

\* the records a caller can append at the n-th call: free or paid,
\* successful or not, with or without a satisfaction value
UsageRecords(n) ==
    [timestamp : {n}, model_used : {"Gemini2Pro"}, actual_cost : {0, 4016},
     success : BOOLEAN, user_satisfaction : OptionOf({4})]

\* a call of CostOptimizer::get_usage_stats
GetUsageStats ==
    /\ ret' = [op |-> "get_usage_stats", val |-> get_usage_stats(usage_history)]
    /\ UNCHANGED <<optVars, monVars, orchVars, histVars, now>>

InitUsage == InitMonitor

NextUsage ==
    \/ appended < MaxUsage /\ \E r \in UsageRecords(appended + 1) : RecordUsage(r)
    \/ GetUsageStats

SpecUsage == InitUsage /\ [][NextUsage]_vars

\* the statistics of a usage history, each quantity divided by the count of
\* the records it is summed over, and 0 when that count is 0
UsageStatsByOwnCounts(history) ==
    LET Successful(r) == r.success
        Rated(r) == IsSome(r.user_satisfaction)
        Cost(r) == F(r.actual_cost)
        Satisfaction(r) == F(r.user_satisfaction[1])
        successes == Len(SelectSeq(history, Successful))
        rated == SelectSeq(history, Rated)
        total_cost == FSum(MapSeq(history, Cost))
    IN  [total_tasks |-> Len(history),
         total_cost_usd |-> total_cost,
         success_rate |-> IF Len(history) = 0 THEN F(0)
                          ELSE Rat(successes, Len(history)),
         avg_satisfaction |->
             IF Len(rated) = 0 THEN F(0)
             ELSE FDiv(FSum(MapSeq(rated, Satisfaction)), F(Len(rated))),
         cost_per_successful_task |->
             IF successes = 0 THEN F(0) ELSE FDiv(total_cost, F(successes))]

\* C18: get_usage_stats is computed over the whole usage history, each
\* quantity divided by its own count: total_tasks is the length,
\* success_rate successes / total, avg_satisfaction the sum of the
\* satisfaction values present / the number of records that carry one,
\* cost_per_successful_task total cost / successes, and 0 for a count of 0.
C18_UsageStatsDivideByOwnCounts ==
    ret.op = "get_usage_stats" =>
        LET claimed == UsageStatsByOwnCounts(usage_history)
        IN  /\ ret.val.total_tasks = claimed.total_tasks
            /\ ret.val.total_cost_usd = claimed.total_cost_usd
            /\ ret.val.success_rate = claimed.success_rate
            /\ ret.val.cost_per_successful_task = claimed.cost_per_successful_task
            /\ ret.val.avg_satisfaction = claimed.avg_satisfaction

-----------------------------------------------------------------------------
(* The handles of start_task: SpecTracking.  A TaskTracker is consumed by  *)
(* TaskTracker::complete or dropped with the cancelled call that holds it; *)
(* every handle held is eventually one or the other.                        *)

\* TaskTracker::complete: complete_task through the handle's pointer
TrackerComplete(task_id, result, user_rating) ==
    /\ task_id \in trackers
    /\ CompleteTask(task_id, result, user_rating)

\* a TaskTracker goes out of scope without complete, as when the caller
\* cancels the task that holds it: TaskTracker has no Drop, nothing runs
DropTracker(task_id) ==
    /\ task_id \in trackers
    /\ trackers' = trackers \ {task_id}
    /\ ret' = [op |-> "drop", id |-> task_id]
    /\ UNCHANGED <<optVars, monVars, orchVars, completions, appended,
                   executed, now>>

InitTracking == InitMonitor

NextTracking ==
    \/ \E id \in TaskIds : StartTask(id, "Gemini2Pro", Tenths(3))
    \/ \E id \in TaskIds : \E r \in Outcomes : \E rating \in Ratings :
          TrackerComplete(id, r, rating)
    \/ \E id \in TaskIds : DropTracker(id)
    \/ GetCurrentMetrics

\* a handle that is held is consumed
Consume ==
    \E id \in TaskIds :
        \/ DropTracker(id)
        \/ \E r \in Outcomes : \E rating \in Ratings :
              TrackerComplete(id, r, rating)

SpecTracking == InitTracking /\ [][NextTracking]_vars /\ WF_vars(Consume)

\* the task history holds a closed execution with this id
Closed(id) ==
    \E i \in 1..Len(task_history) :
        /\ task_history[i].id = id
        /\ task_history[i].end_time # None

\* C20: every execution opened with start_task is eventually closed by a
\* complete_task for its id, also when the caller cancels the task; no
\* execution is dropped after start_task.
C20_EveryStartIsEventuallyClosed ==
    \A id \in TaskIds : (id \in trackers) ~> Closed(id)

-----------------------------------------------------------------------------
(* analyze_task_complexity on its own: SpecAnalyze *)

RECURSIVE Repeat(_, _)
Repeat(w, n) == IF n = 0 THEN "" ELSE w \o Repeat(w, n - 1)

\* a description of 101 words, one more than the context score saturates at
LongDescription == Repeat("word ", 101)

\* the empty description, blanks only, the two scenarios, descriptions
\* with every reasoning and every code indicator, upper case, a thinking
\* phrase, a multimodal word, no keyword, and the long one
AnalyzeDescriptions ==
    {"", "   ", ScenarioA, ScenarioB, "hello there",
     "analyze explain reason think complex difficult solve",
     "function class algorithm implement code programming api",
     "ANALYZE AND EXPLAIN THE CODE", "think through it",
     "describe the picture", "Implement the API Class code",
     LongDescription}

\* a call of analyze_task_complexity; before is the call that preceded it
AnalyzeTaskComplexity(description) ==
    /\ ret' = [op |-> "analyze_task_complexity",
               description |-> description,
               val |-> analyze_task_complexity(description),
               before |-> IF ret.op = "analyze_task_complexity"
                          THEN Some([description |-> ret.description,
                                     val |-> ret.val])
                          ELSE None]
    /\ UNCHANGED <<optVars, monVars, orchVars, histVars, now>>

InitAnalyze == InitMonitor

NextAnalyze == \E d \in AnalyzeDescriptions : AnalyzeTaskComplexity(d)

SpecAnalyze == InitAnalyze /\ [][NextAnalyze]_vars

\* C21: analyze_task_complexity returns its three scores within [0, 1]
\* for every description, returns all-zero scores with both flags false
\* for the empty description, and returns the same result when it is
\* called again on the same description.
C21_AnalysisIsBoundedAndRepeatable ==
    ret.op = "analyze_task_complexity" =>
        /\ ret.val.reasoning_required \in 0..One
        /\ ret.val.code_complexity \in 0..One
        /\ ret.val.context_length \in 0..One
        /\ ret.description = "" =>
              ret.val = [reasoning_required |-> 0, code_complexity |-> 0,
                         context_length |-> 0, thinking_needed |-> FALSE,
                         multimodal |-> FALSE]
        /\ (IsSome(ret.before) /\ ret.before[1].description = ret.description)
              => ret.before[1].val = ret.val

\* C21 witness: the 101-word description analysed twice in a row, its
\* context score at the cap
C21_Witness ==
    /\ ret.op = "analyze_task_complexity"
    /\ ret.description = LongDescription
    /\ IsSome(ret.before)
    /\ ret.before[1].description = LongDescription
    /\ ret.val.context_length = One

-----------------------------------------------------------------------------
(* adapters/gemini_process_manager.rs: prompt detection, SpecPrompt *)

\* a &str as the sequence of its characters
Chars(s) == [i \in 1..Len(s) |-> CharAt(s, i)]

ReadyPatterns == <<"> ", "? ", "Enter ", "Continue", "gemini>">>

\* mutant of is_prompt_ready: the patterns without their trailing blank
is_prompt_ready_Trimmed(output) ==
    \E i \in 1..5 :
        contains(Chars(output), <<">", "?", "Enter", "Continue", "gemini>">>[i])

\* GeminiProcessManager::is_prompt_ready
is_prompt_ready(output) ==
    \E i \in 1..Len(ReadyPatterns) : contains(Chars(output), ReadyPatterns[i])

\* lines of output: those of test_prompt_detection, each pattern on its own
\* and inside a line, patterns in the wrong case or without their trailing
\* blank, and the empty line
OutputLines ==
    {"> Enter your prompt", "? What would you like to do",
     "Processing your request...", "", "gemini>", "gemini> ", "Continue",
     "continue", "Enter", "Press Enter to go on", "a>b", "Ready?",
     "Do you want to Continue? [y/N]", "ENTER ", "x > y"}

\* a call of is_prompt_ready on a line the output monitor has read; before
\* is the call that preceded it
IsPromptReady(output) ==
    /\ ret' = [op |-> "is_prompt_ready", output |-> output,
               val |-> is_prompt_ready(output),
               before |-> IF ret.op = "is_prompt_ready"
                          THEN Some([output |-> ret.output, val |-> ret.val])
                          ELSE None]
    /\ UNCHANGED <<optVars, monVars, orchVars, histVars, now>>

InitPrompt == InitMonitor

NextPrompt == \E line \in OutputLines : IsPromptReady(line)

SpecPrompt == InitPrompt /\ [][NextPrompt]_vars

\* the line has one of the five ready patterns as a substring
HasReadyPattern(line) ==
    \E p \in {"> ", "? ", "Enter ", "Continue", "gemini>"} :
        \E i \in 1..Len(line) :
            /\ i + Len(p) - 1 <= Len(line)
            /\ SubSeq(line, i, i + Len(p) - 1) = p

\* C22: is_prompt_ready(line) is true exactly when the line contains at
\* least one of the ready patterns "> ", "? ", "Enter ", "Continue",
\* "gemini>", and false for a line that contains none of them.
C22_ReadyIffLineHasPattern ==
    ret.op = "is_prompt_ready" => (ret.val <=> HasReadyPattern(ret.output))

\* C22 witness: a line without a pattern answered false right after a line
\* with two patterns answered true
C22_Witness ==
    /\ ret.op = "is_prompt_ready"
    /\ ret.output = "Processing your request..."
    /\ ~ret.val
    /\ IsSome(ret.before)
    /\ ret.before[1].output = "> Enter your prompt"
    /\ ret.before[1].val

-----------------------------------------------------------------------------
(* The code rule of the selector, under SpecOptimizer *)

\* the task reaches the code rule with code_complexity its largest score
\* and an overall score above 0.6
CodeHeavy(priority, tc) ==
    /\ priority # "Critical"
    /\ ~(priority = "Low" /\ complexity_score3(tc) < 3 * Tenths(3))
    /\ ~tc.thinking_needed
    /\ tc.code_complexity >= tc.reasoning_required
    /\ tc.code_complexity >= tc.context_length
    /\ complexity_score3(tc) > 3 * Tenths(6)

\* C23: for a task not caught by the Critical, Low-and-cheap or thinking
\* rules, whose code_complexity is the largest of its scores and whose
\* overall score is above 0.6, select_optimal_model returns a backend whose
\* profile lists CodeGeneration, and the same backend whatever the
\* description is.
C23_CodeHeavyGetsCodeBackend ==
    (/\ ret.op = "select_optimal_model"
     /\ CodeHeavy(current_constraints.priority_level, ret.task_complexity))
    => /\ ret.val \in DOMAIN model_capabilities
       /\ "CodeGeneration" \in model_capabilities[ret.val].specializations
       /\ \A d \in SelectDescriptions :
             ret.val = select_optimal_model(current_constraints,
                                            ret.task_complexity, d)

-----------------------------------------------------------------------------
(* The divisions of the metrics, under SpecMetrics *)

-----------------------------------------------------------------------------
(* The running aggregates of the monitor: SpecAggregates *)

\* histories of executions still open, started at the session's start on
\* two backends, each with the tracker start_task returned for it
OpenHistories ==
    LET t1 == NewTaskExecution("t1", "Gemini2Pro", Tenths(3), 0)
        t2 == NewTaskExecution("t2", "Gemini2Pro", Tenths(3), 0)
        t3 == NewTaskExecution("t2", "Claude35Sonnet", Tenths(3), 0)
    IN  {<<>>, <<t1>>, <<t1, t2>>, <<t1, t3>>}

InitAggregates ==
    /\ model_capabilities = DefaultCapabilities
    /\ usage_history = <<>>
    /\ current_constraints = DefaultConstraints
    /\ task_history \in OpenHistories
    /\ model_performance = <<>>
    /\ real_time_buffer = <<>>
    /\ baseline_metrics = None
    /\ session_start = 0
    /\ alert_thresholds = DefaultThresholds
    /\ now = 0
    /\ adapters = {}
    /\ default_adapter = "gemini"
    /\ flow = NoFlow
    /\ pc = "idle"
    /\ cur_task = None
    /\ trackers = {task_history[i].id : i \in 1..Len(task_history)}
    /\ completions = <<>>
    /\ appended = 0
    /\ executed = 0
    /\ ret = Unit("new")

\* TaskTracker::complete consumes the tracker: one completion for a task
NextAggregates ==
    \/ \E t \in Clock : Tick(t)
    \/ \E id \in trackers : \E r \in Outcomes : \E rating \in Ratings :
          CompleteTask(id, r, rating)

SpecAggregates == InitAggregates /\ [][NextAggregates]_vars

\* the completed executions of a backend, in the order of the history
CompletedBy(model) ==
    LET Done(task) == IsSome(task.end_time) /\ task.model_used = model
    IN  SelectSeq(task_history, Done)

\* the sum of a field over executions
RECURSIVE SumOver(_, _)
SumOver(tasks, field) ==
    IF tasks = <<>> THEN 0
    ELSE (IF field = "cost" THEN Head(tasks).cost
          ELSE IF field = "duration_ms" THEN Head(tasks).duration_ms[1]
          ELSE Head(tasks).user_rating[1])
         + SumOver(Tail(tasks), field)

-----------------------------------------------------------------------------
(* The speed improvement factor, under SpecMetrics *)

\* C26: the speed improvement factor get_current_metrics reports is 1.0
\* when no baseline is set, and with a baseline it is the baseline's average
\* latency divided by max(current average latency, 1 ms), whether the
\* window is empty or not.
C26_SpeedFactorIsBaselineOverLatency ==
    ret.op = "get_current_metrics" =>
        ret.val.speed_improvement_factor =
            IF baseline_metrics = None
            THEN F(1)
            ELSE FDiv(baseline_metrics[1].avg_response_time_ms,
                      FMax(ret.val.avg_response_time_ms, F(1)))

-----------------------------------------------------------------------------
(* The cost constraints across recorded and executed tasks: SpecConstraints *)

\* the number of record_usage calls a behaviour makes
MaxRecorded == 2

\* constraints with and without a per-task limit, a budget of 0.50 USD and
\* 0 or 0.49 USD of it spent
BudgetConstraints ==
    [max_cost_per_task : OptionOf({Cents(1)}),
     monthly_budget : {Some(Cents(50))},
     current_month_spent : {0, Cents(49)},
     priority_level : {"Balanced"}]

\* usage records of 0.0002 USD and of 1 USD
SpentRecords(n) ==
    {[NthRecord(n) EXCEPT !.actual_cost = c] : c \in {4016, Cents(100)}}

BudgetTasks ==
    [id : {"t1"}, description : {ScenarioA, ScenarioB},
     priority : {"Medium"}, max_cost_usd : {None}]

\* an orchestrator with its default adapter registered
InitConstraints ==
    /\ NewComponents
    /\ current_constraints \in BudgetConstraints
    /\ adapters = {"gemini"}
    /\ default_adapter = "gemini"
    /\ flow = NoFlow
    /\ pc = "idle"
    /\ cur_task = None
    /\ ret = Unit("new")

NextConstraints ==
    \/ \E c \in BudgetConstraints : UpdateCostConstraints(c)
    \/ /\ pc = "idle"
       /\ appended < MaxRecorded
       /\ \E r \in SpentRecords(appended + 1) : RecordUsage(r)
    \/ pc = "idle" /\ \E c \in Costs : CheckCostConstraints(c)
    \/ \E task \in BudgetTasks : ExecuteTaskCall(task)
    \/ \E plan \in AdapterOutcomes : AdapterReturn(plan)

SpecConstraints == InitConstraints /\ [][NextConstraints]_vars

\* C27: a step that is not update_constraints leaves the cost constraints
\* as they are, so check_cost_constraints answers every cost as before: the
\* constraints change neither by record_usage nor by execute_task.
C27_OnlyUpdateChangesConstraints ==
    [][(\A c \in BudgetConstraints : ~UpdateCostConstraints(c)) =>
          /\ current_constraints' = current_constraints
          /\ \A cost \in Costs :
                check_cost_constraints(current_constraints', cost)
                   = check_cost_constraints(current_constraints, cost)]_vars

\* C27 witness: after an execute_task and recorded usage of more than the
\* whole budget, a cost of 0.01 USD is still accepted against a budget of
\* which nothing counts as spent
C27_Witness ==
    /\ ret.op = "check_cost_constraints"
    /\ ret.estimated_cost = Cents(1)
    /\ ret.val = Ok
    /\ executed > 0
    /\ appended = MaxRecorded
    /\ \E i \in 1..Len(usage_history) :
          usage_history[i].actual_cost > current_constraints.monthly_budget[1]
    /\ current_constraints.current_month_spent = 0

-----------------------------------------------------------------------------
(* Thinking tasks and thinking backends, under SpecOptimizer *)

\* C28: when thinking_needed is true the backend select_optimal_model
\* returns has thinking_support in its profile, for every priority and
\* score, except at priority Low with an overall score below 0.3, where the
\* cheapest backend, which has no thinking support, is returned.
C28_ThinkingTaskGetsThinkingBackend ==
    LET Holds(tc, selected) ==
            tc.thinking_needed =>
                IF /\ current_constraints.priority_level = "Low"
                   /\ complexity_score3(tc) < 3 * Tenths(3)
                THEN /\ selected = "Gemini2Pro"
                     /\ \A m \in DOMAIN model_capabilities : Cheapest(m) => m = selected
                     /\ ~model_capabilities[selected].thinking_support
                ELSE /\ selected \in DOMAIN model_capabilities
                     /\ model_capabilities[selected].thinking_support
    IN  /\ ret.op = "select_optimal_model" => Holds(ret.task_complexity, ret.val)
        /\ ret.op = "analyze_and_optimize_selection" =>
              Holds(ret.val.task_complexity, ret.val.selected_model)

\* C28 witness: a thinking task of overall score 1.0 at priority High gets
\* Claude37Sonnet
C28_Witness ==
    /\ ret.op = "select_optimal_model"
    /\ ret.task_complexity.thinking_needed
    /\ complexity_score3(ret.task_complexity) = 3 * One
    /\ current_constraints.priority_level = "High"
    /\ ret.val = "Claude37Sonnet"

\* a thinking task at priority Low below 0.3 gets the cheapest backend
C28_WitnessException ==
    /\ ret.op = "select_optimal_model"
    /\ ret.task_complexity.thinking_needed
    /\ complexity_score3(ret.task_complexity) < 3 * Tenths(3)
    /\ current_constraints.priority_level = "Low"
    /\ ret.val = "Gemini2Pro"

-----------------------------------------------------------------------------
(* The limit an error of the cost check carries, under SpecOptimizer *)

\* the tasks of the orchestrator with and without a limit of their own
LimitTasks ==
    [id : {"t1"}, description : {ScenarioA, ScenarioB},
     priority : {"Medium"}, max_cost_usd : OptionOf({Cents(1) \div 100})]

\* C29: CostLimitExceeded carries the limit that was breached, the
\* per-task limit first: max_cost_per_task when the estimate exceeds it,
\* also when the monthly budget is exceeded as well, and monthly_budget
\* only when the per-task limit is unset or respected.  The check of the
\* orchestrator answers a task that has no limit of its own, or respects
\* it, in the same way.
C29_ErrorCarriesBreachedLimit ==
    LET k == current_constraints
        overTask(c) == k.max_cost_per_task # None /\ c > k.max_cost_per_task[1]
        overBudget(c) == /\ k.monthly_budget # None
                         /\ k.current_month_spent + c > k.monthly_budget[1]
        Carries(val, c) ==
            /\ overTask(c) => val = CostLimitExceeded(k.max_cost_per_task[1])
            /\ (~overTask(c) /\ overBudget(c)) =>
                  val = CostLimitExceeded(k.monthly_budget[1])
            /\ (~val.ok /\ ~overTask(c)) =>
                  (overBudget(c) /\ val.limit = k.monthly_budget[1])
    IN  /\ ret.op = "check_cost_constraints" => Carries(ret.val, ret.estimated_cost)
        /\ ret.op = "check_cost_constraints" =>
              \A task \in LimitTasks :
                 LET c == SelectedCost(k, model_capabilities, task)
                 IN  (task.max_cost_usd = None \/ c <= task.max_cost_usd[1]) =>
                        Carries(CostVerdict(k, model_capabilities, task), c)

\* C29 witness: a cost of 0.05 USD over the per-task limit of 0.01 USD and,
\* with 0.49 USD spent, over the budget of 0.50 USD: the error carries 0.01
C29_Witness ==
    /\ ret.op = "check_cost_constraints"
    /\ ret.estimated_cost = Cents(5)
    /\ current_constraints.max_cost_per_task = Some(Cents(1))
    /\ current_constraints.monthly_budget = Some(Cents(50))
    /\ current_constraints.current_month_spent = Cents(49)
    /\ ret.val = CostLimitExceeded(Cents(1))

-----------------------------------------------------------------------------
(* adapters/gemini_cli.rs: GeminiCLIFlow::execute, SpecFlow *)

\* the number of execute calls a behaviour makes on a flow
MaxFlowTasks == 2

\* AdapterConfig.max_attempts: below, at and above the loop's own limit
ConfiguredAttempts == {1, 3, 5}

GeminiMode == {"ApiDirect", "CliInteractive"}

\* what call_generative_api returns: an error (network, HTTP status, JSON,
\* no content) or the first part of the first candidate, which holds a
\* function call, a text, both or neither
ApiResponses ==
    [ok : {FALSE}, err : {"NetworkError"}, msg : {"send"}]
    \cup [ok : {FALSE}, err : {"ApiError"},
          msg : {"API Error", "JSON Parse Error", "No response content"}]
    \cup [ok : {TRUE}, function_call : BOOLEAN, text : BOOLEAN]

MaxAttemptsReached(n) == [ok |-> FALSE, err |-> "MaxAttemptsReached", attempts |-> n]

\* mutant of LoopLimit: the limit of the adapter configuration
LoopLimit_FromConfig(f) == f.max_attempts

\* execute: let max_attempts = 3
LoopLimit(f) == 3

\* the head of the loop of execute, entered with the flow f: one more
\* attempt, which is either refused or sends a request to the API
LoopHead(f) ==
    LET attempts == f.attempts + 1
    IN  IF attempts > LoopLimit(f)
        THEN [flow |-> [f EXCEPT !.attempts = attempts, !.pc = "idle"],
              ret |-> [op |-> "execute", val |-> MaxAttemptsReached(LoopLimit(f))]]
        ELSE [flow |-> [f EXCEPT !.attempts = attempts, !.pc = "awaiting_api",
                                 !.api_calls = @ + 1],
              ret |-> Unit("execute_pending")]

\* GeminiCLIFlow::new_with_model and new_interactive
InitFlow ==
    /\ NewComponents
    /\ current_constraints = DefaultConstraints
    /\ adapters = {}
    /\ default_adapter = "gemini"
    /\ flow \in {[NoFlow EXCEPT !.mode = m, !.max_attempts = k] :
                    m \in GeminiMode, k \in ConfiguredAttempts}
    /\ pc = "idle"
    /\ cur_task = None
    /\ ret = Unit("new")

\* execute, up to its first await: of execute_command in CLI mode, of the
\* first call_generative_api in API mode
FlowExecute ==
    /\ flow.pc = "idle"
    /\ flow.tasks < MaxFlowTasks
    /\ IF flow.mode = "CliInteractive"
       THEN /\ flow' = [flow EXCEPT !.pc = "awaiting_cli", !.attempts = 0,
                                    !.parts = 0, !.api_calls = 0,
                                    !.tasks = @ + 1]
            /\ ret' = Unit("execute_pending")
       ELSE LET next == LoopHead([flow EXCEPT !.attempts = 0, !.parts = 1,
                                              !.api_calls = 0, !.tasks = @ + 1])
            IN  flow' = next.flow /\ ret' = next.ret
    /\ UNCHANGED <<optVars, monVars, adapters, default_adapter, pc, cur_task,
                   histVars, now>>

\* execute in CLI mode, from the return of execute_command
FlowCliReturn(ok) ==
    /\ flow.pc = "awaiting_cli"
    /\ flow' = [flow EXCEPT !.pc = "idle"]
    /\ ret' = [op |-> "execute",
               val |-> IF ok THEN [ok |-> TRUE, attempts_made |-> 1]
                       ELSE [ok |-> FALSE, err |-> "ApiError",
                             msg |-> "Error en Gemini CLI"]]
    /\ UNCHANGED <<optVars, monVars, adapters, default_adapter, pc, cur_task,
                   histVars, now>>

\* execute in API mode, from the return of call_generative_api to the next
\* call or to the return of execute
FlowApiReturn(response) ==
    /\ flow.pc = "awaiting_api"
    /\ IF ~response.ok
       THEN /\ flow' = [flow EXCEPT !.pc = "idle"]
            /\ ret' = [op |-> "execute", val |-> response]
       ELSE IF response.function_call
       THEN LET next == LoopHead([flow EXCEPT !.parts = @ + 2])
            IN  flow' = next.flow /\ ret' = next.ret
       ELSE IF response.text
       THEN /\ flow' = [flow EXCEPT !.pc = "idle"]
            /\ ret' = [op |-> "execute",
                       val |-> [ok |-> TRUE, attempts_made |-> flow.attempts]]
       ELSE /\ flow' = [flow EXCEPT !.pc = "idle"]
            /\ ret' = [op |-> "execute",
                       val |-> [ok |-> FALSE, err |-> "ApiError",
                                msg |-> "Respuesta inesperada"]]
    /\ UNCHANGED <<optVars, monVars, adapters, default_adapter, pc, cur_task,
                   histVars, now>>

NextFlow ==
    \/ FlowExecute
    \/ \E ok \in BOOLEAN : FlowCliReturn(ok)
    \/ \E response \in ApiResponses : FlowApiReturn(response)

\* the HTTP client is built with the configured timeout and execute_command
\* waits 120 s at most: an awaited call returns
FlowReturns ==
    \/ \E ok \in BOOLEAN : FlowCliReturn(ok)
    \/ \E response \in ApiResponses : FlowApiReturn(response)

SpecFlow == InitFlow /\ [][NextFlow]_vars /\ WF_vars(FlowReturns)

\* C30: in API mode execute terminates and calls the generative API at most
\* 3 times for a task, whatever max_attempts the configuration holds: it
\* returns at the first text response or error, and it returns
\* MaxAttemptsReached(3) exactly when three responses in a row were function
\* calls.
C30_ApiModeStopsAfterThreeCalls ==
    /\ [](flow.mode = "ApiDirect" => flow.api_calls <= 3)
    /\ []((flow.mode = "ApiDirect" /\ flow.pc = "idle" /\ ret.op = "execute") =>
            /\ flow.api_calls \in 1..3
            /\ ret.val.ok =>
                  /\ ret.val.attempts_made = flow.api_calls
                  /\ flow.parts = 2 * (flow.api_calls - 1) + 1
            /\ (ret.val = MaxAttemptsReached(3)) <=> (flow.parts = 7)
            /\ flow.parts = 7 => flow.api_calls = 3
            /\ (~ret.val.ok /\ ret.val # MaxAttemptsReached(3)) =>
                  flow.parts = 2 * (flow.api_calls - 1) + 1)
    /\ (flow.pc = "awaiting_api") ~> (flow.pc = "idle")

\* C30 witness: a flow configured with max_attempts = 5 has returned
\* MaxAttemptsReached(3) after three function calls and three API calls
C30_Witness ==
    /\ flow.mode = "ApiDirect"
    /\ flow.max_attempts = 5
    /\ flow.pc = "idle"
    /\ ret.op = "execute"
    /\ ret.val = MaxAttemptsReached(3)
    /\ flow.api_calls = 3
    /\ flow.parts = 7

=============================================================================
